---- MODULE Spec2Model ----
(***************************************************************************)
(* A model of the redis-clone keyspace (app/store), of the blocking-pop   *)
(* rendezvous (app/blocking/queue_manager.py, app/commands/list/          *)
(* blpop_command.py) and of the asyncio event loop that schedules them.   *)
(***************************************************************************)
EXTENDS Integers, Sequences, FiniteSets, TLC

\* ---------------------------------------------------------------- bounds
Keys == {"k1", "k2"}
MaxVal == 2          \* string / list payloads are 1..MaxVal in the store model
MaxLen == 3          \* longest list explored
MaxVals == 2         \* most values in one RPUSH / LPUSH
MaxClock == 2        \* the injected clock runs 0..MaxClock
MaxTTL == 1          \* TTLs tried by set_key are -1..MaxTTL
MaxCount == 2        \* LPOP counts tried are -1..MaxCount
MaxIdx == 1          \* LRANGE indices tried are -MaxIdx..MaxIdx
NWaiters == 2        \* client connections that issue one BLPOP each
MaxPush == 2         \* values pushed by other clients while the loop runs
MaxPop == 1          \* LPOPs issued by other clients while the loop runs
MaxClose == 1        \* connections closed by their peer while blocked
MaxPushVals == 1     \* most values in one RPUSH while the loop runs
MaxEnv == 3          \* pushes, pops, timer expiries and closes in one run
MaxId == 2           \* stands for 2^64 - 1, the largest ms / seq of an entry id
MaxEntries == 2      \* most entries the StreamStore holds at once
MaxFrames == 3       \* command frames a client sends on its connection
MaxPushed == 4       \* values pushed to one key in a run of RPUSH / LPOP / LLEN
MaxRange == 5        \* LRANGE start and stop run over -MaxRange .. MaxRange
MaxItems == 2        \* most elements of an encoded array
MaxInt == 1          \* encoded integers run over -MaxInt .. MaxInt
MaxBurst == 2        \* most values of the one RPUSH sent to blocked callers
NOps == 2            \* wait_for_push calls made on one BlockingQueueManager
MaxNotify == 3       \* notify_push calls made on one BlockingQueueManager
NFutures == 3        \* wait_for_pop calls made on one BlockingManager
MaxElements == 2     \* notify_new_element calls made on one BlockingManager

VARIABLES
    \* Store (app/store/store.py) and its sub-stores
    key_types,       \* Store.key_types: key -> "string" | "list"
    values,          \* StringStore.values
    expirations,     \* StringStore.expirations (absolute ms)
    lists,           \* ListStore.lists: key -> sequence
    now,             \* value returned by the injected time function
    last,            \* the last Store call and what it returned
    \* BlockingQueueManager, the BLPOP callers and the event loop
    notification_handlers,   \* BlockingQueueManager.notification_handlers
    ready,           \* the event loop's FIFO of callbacks that are ready to run
    pc,              \* where each BLPOP caller stands in execute/_wait_for_element
    bargs,           \* the keys and timeout of each caller's BLPOP
    event,           \* the asyncio.Event of _wait_for_element
    future,          \* the future of _wait_for_element
    result,          \* the nonlocal result of try_pop_after_notification
    task,            \* the state of the try_pop_after_notification task
    reply,           \* what execute returned
    closed,          \* 0, or 1 + the number of values pushed when the peer closed
    timerFired,      \* the wait_for timer of the caller has fired
    npush,           \* values pushed so far (the n-th pushed value is n)
    npop,            \* LPOPs sent by other clients so far
    regLog,          \* callers in the order they registered their handlers
    nsig,            \* how often notify_push has chosen each caller's handler
    shutdown,        \* main() has cancelled every task that was not done
    hcancel,         \* the cancellation of each caller's connection task
    \* StreamStore (app/store/stream_store.py)
    streams,         \* StreamStore.streams: key -> sequence of entry ids
    xlast,           \* the last StreamStore call and what it returned
    \* one client connection (app/connection.py, handle_connection)
    arrived,         \* the command frames the client has sent, in order
    sock,            \* frames received and not yet returned by reader.read
    data,            \* the frames the last reader.read returned
    cstate,          \* where handle_connection is: read | parse | exec | closed
    current,         \* the frame whose command is executing
    eof,             \* the client has closed its side
    written,         \* the replies written, in order
    \* CommandDispatcher (app/commands/dispatcher.py)
    commands,        \* CommandDispatcher.commands: name -> handler
    dcall,           \* the last dispatch call and the call it made
    \* what a client of the list store has seen (history)
    pushed,          \* key -> every value RPUSH appended, in order
    popped,          \* key -> every value LPOP returned, in order
    \* RESP2 encode / parse (app/parser/parser.py)
    rv,              \* the value given to encode
    wire,            \* what encode returned
    back,            \* what RESP2Parser.parse made of it
    \* BlockingQueueManager.wait_for_push / notify_push
    waiting_operations,   \* BlockingQueueManager.waiting_operations
    active_operations,    \* BlockingQueueManager.active_operations
    operation,       \* each BlockingOperation: its future, event and keys
    qtasks,          \* tasks made by asyncio.create_task, in creation order
    qlog,            \* every notify_push call and what it returned
    qgot,            \* the notify_push calls whose (key, value) was delivered
    \* BlockingManager (app/blocking/manager.py)
    waiting_clients,  \* BlockingManager.waiting_clients: key -> deque of futures
    active_futures,   \* BlockingManager.active_futures
    futures,          \* each future made by wait_for_pop and its caller
    bcall,            \* the last notify_new_element call, with the tables
                      \* before and after it
    bserved           \* how often each future was given a result

storeVars == <<key_types, values, expirations, lists, now>>
loopVars == <<notification_handlers, ready, pc, bargs, event, future, result,
              task, reply, closed, timerFired, npush, npop,
              regLog, nsig, shutdown, hcancel>>
streamVars == <<streams, xlast>>
connVars == <<arrived, sock, data, cstate, current, eof, written>>
dispVars == <<commands, dcall>>
histVars == <<pushed, popped>>
respVars == <<rv, wire, back>>
qmVars == <<waiting_operations, active_operations, operation, qtasks, qlog,
           qgot>>
bmVars == <<waiting_clients, active_futures, futures, bcall, bserved>>
downVars == <<shutdown, hcancel>>
vars == <<key_types, values, expirations, lists, now, last,
          notification_handlers, ready, pc, bargs, event, future, result,
          task, reply, closed, timerFired, npush, npop,
          regLog, nsig, shutdown, hcancel, streams, xlast,
          arrived, sock, data, cstate, current, eof, written,
          commands, dcall, pushed, popped, rv, wire, back,
          waiting_operations, active_operations, operation, qtasks, qlog,
          qgot, waiting_clients, active_futures, futures, bcall, bserved>>

\* ------------------------------------------------- python dict helpers
\* d[k] = v
DictPut(d, k, v) == [x \in (DOMAIN d) \cup {k} |-> IF x = k THEN v ELSE d[x]]
\* d.pop(k, None)
DictPop(d, k) == [x \in (DOMAIN d) \ {k} |-> d[x]]
EmptyDict == [x \in {} |-> 0]

\* ------------------------------------------------------ return values
RetNone == [kind |-> "none", val |-> 0, vals |-> <<>>]
RetVal(v) == [kind |-> "value", val |-> v, vals |-> <<>>]
RetList(s) == [kind |-> "list", val |-> 0, vals |-> s]
RetInt(n) == [kind |-> "int", val |-> n, vals |-> <<>>]
RetBool(b) == [kind |-> "bool", val |-> IF b THEN 1 ELSE 0, vals |-> <<>>]
RetTypeError == [kind |-> "WRONGTYPE", val |-> 0, vals |-> <<>>]
RetValueError == [kind |-> "ValueError", val |-> 0, vals |-> <<>>]

\* the kind a key is bound to in key_types ("none" when unbound)
KindOf(KT, key) == IF key \in DOMAIN KT THEN KT[key] ELSE "none"

\* a record of a Store call: its name, its key, the kind the key was bound
\* to before the call, and what the call returned
Call(op, key, was, ret) == [op |-> op, key |-> key, was |-> was, ret |-> ret]

\* ------------------------------------------------------------ ListStore
\* ListStore.rpush that puts the values in front
ListStore_rpush_front(L, key, vals) ==
    DictPut(L, key, vals \o (IF key \in DOMAIN L THEN L[key] ELSE <<>>))

\* ListStore.rpush: append each value in argument order
ListStore_rpush(L, key, vals) ==
    DictPut(L, key, (IF key \in DOMAIN L THEN L[key] ELSE <<>>) \o vals)

RECURSIVE Reverse(_)
Reverse(s) == IF s = <<>> THEN <<>> ELSE Reverse(Tail(s)) \o <<Head(s)>>

\* ListStore.lpush that prepends the values as one block
ListStore_lpush_block(L, key, vals) ==
    DictPut(L, key, vals \o (IF key \in DOMAIN L THEN L[key] ELSE <<>>))

\* ListStore.lpush: appendleft each value in argument order
ListStore_lpush(L, key, vals) ==
    DictPut(L, key, Reverse(vals) \o (IF key \in DOMAIN L THEN L[key] ELSE <<>>))

\* ListStore.llen
ListStore_llen(L, key) == IF key \in DOMAIN L THEN Len(L[key]) ELSE 0

Min(a, b) == IF a < b THEN a ELSE b
Max(a, b) == IF a > b THEN a ELSE b

\* ListStore._normalize_start_index / _normalize_end_index
NormalizeStart(index, length) ==
    IF index < 0 THEN Max(index + length, 0) ELSE Min(index, length)
NormalizeEnd_excl(index, length) ==
    IF index < 0 THEN Max(index + length, -1) ELSE Min(index, length - 1) - 1
NormalizeEnd(index, length) ==
    IF index < 0 THEN Max(index + length, -1) ELSE Min(index, length - 1)

\* ListStore.lrange (0-based, inclusive indices)
ListStore_lrange(L, key, start, end) ==
    IF key \notin DOMAIN L THEN <<>>
    ELSE LET length == Len(L[key])
             s == NormalizeStart(start, length)
             e == NormalizeEnd(end, length)
         IN IF s > e \/ s >= length THEN <<>>
            ELSE SubSeq(L[key], s + 1, e + 1)

\* ListStore.delete
ListStore_delete(L, key) == DictPop(L, key)

\* ListStore.lpop that takes one element whatever the count
ListStore_lpop_one(L, key, hasCount, count) ==
    IF key \notin DOMAIN L \/ L[key] = <<>>
    THEN [ret |-> IF hasCount THEN RetList(<<>>) ELSE RetNone, lists |-> L]
    ELSE LET given == L[key]
             rest == Tail(given)
             after == IF rest = <<>> THEN DictPop(L, key)
                      ELSE DictPut(L, key, rest)
         IN [ret |-> IF hasCount THEN RetList(<<Head(given)>>)
                     ELSE RetVal(Head(given)),
             lists |-> after]

\* ListStore.lpop: hasCount = FALSE is count=None.  Yields the returned
\* value and the lists table afterwards.
ListStore_lpop(L, key, hasCount, count) ==
    IF key \notin DOMAIN L \/ L[key] = <<>>
    THEN [ret |-> IF hasCount THEN RetList(<<>>) ELSE RetNone, lists |-> L]
    ELSE IF hasCount /\ count <= 0
    THEN [ret |-> RetList(<<>>), lists |-> L]
    ELSE LET given == L[key]
             n == IF hasCount THEN Min(count, Len(given)) ELSE 1
             rest == SubSeq(given, n + 1, Len(given))
             after == IF rest = <<>> THEN DictPop(L, key)
                      ELSE DictPut(L, key, rest)
         IN [ret |-> IF hasCount THEN RetList(SubSeq(given, 1, n))
                     ELSE RetVal(Head(given)),
             lists |-> after]

\* ---------------------------------------------------------- StringStore
\* the expiry test of StringStore.get
Expired(exp, key, t) == key \in DOMAIN exp /\ t > exp[key]


\* StringStore.delete together with the on_delete callback (Store._on_key_deleted)
StringStore_delete(KT, V, E, key) ==
    IF key \in DOMAIN V
    THEN [ret |-> TRUE, key_types |-> DictPop(KT, key),
          values |-> DictPop(V, key), expirations |-> DictPop(E, key)]
    ELSE [ret |-> FALSE, key_types |-> KT, values |-> V, expirations |-> E]

\* StringStore.get: lazy expiration on read
StringStore_get(KT, V, E, t, key) ==
    IF key \notin DOMAIN V
    THEN [ret |-> RetNone, key_types |-> KT, values |-> V, expirations |-> E]
    ELSE IF Expired(E, key, t)
    THEN [ret |-> RetNone] @@ StringStore_delete(KT, V, E, key)
    ELSE [ret |-> RetVal(V[key]), key_types |-> KT, values |-> V,
          expirations |-> E]

\* StringStore.set that stores the TTL without adding the clock
StringStore_set_exp_rel(E, t, key, hasTtl, ttl) ==
    IF hasTtl THEN DictPut(E, key, ttl) ELSE DictPop(E, key)

\* StringStore.set that leaves an earlier deadline in place
StringStore_set_exp_stale(E, t, key, hasTtl, ttl) ==
    IF hasTtl THEN DictPut(E, key, t + ttl) ELSE E

\* StringStore.set
StringStore_set_exp(E, t, key, hasTtl, ttl) ==
    IF hasTtl THEN DictPut(E, key, t + ttl) ELSE DictPop(E, key)

\* ---------------------------------------------------------------- Store
\* Store.delete_key that deletes from the string store only
Store_delete_key_strings(KT, V, E, L, key) ==
    IF key \notin DOMAIN KT
    THEN [ret |-> RetBool(FALSE), key_types |-> KT, values |-> V,
          expirations |-> E, lists |-> L]
    ELSE IF KT[key] = "string"
    THEN LET d == StringStore_delete(KT, V, E, key)
         IN [ret |-> RetBool(d.ret), key_types |-> d.key_types,
             values |-> d.values, expirations |-> d.expirations, lists |-> L]
    ELSE [ret |-> RetBool(FALSE), key_types |-> KT, values |-> V,
          expirations |-> E, lists |-> L]

\* Store.delete_key
Store_delete_key(KT, V, E, L, key) ==
    IF key \notin DOMAIN KT
    THEN [ret |-> RetBool(FALSE), key_types |-> KT, values |-> V,
          expirations |-> E, lists |-> L]
    ELSE IF KT[key] = "string"
    THEN LET d == StringStore_delete(KT, V, E, key)
         IN [ret |-> RetBool(d.ret), key_types |-> d.key_types,
             values |-> d.values, expirations |-> d.expirations, lists |-> L]
    ELSE [ret |-> RetBool(key \in DOMAIN L), key_types |-> KT, values |-> V,
          expirations |-> E, lists |-> ListStore_delete(L, key)]

\* Store.set_key that forgets to delete a key of another kind
Store_set_key_keep(KT, V, E, L, t, key, value, hasTtl, ttl) ==
    IF hasTtl /\ ttl < 0
    THEN [ret |-> RetValueError, key_types |-> KT, values |-> V,
          expirations |-> E, lists |-> L]
    ELSE [ret |-> RetNone,
          key_types |-> DictPut(KT, key, "string"),
          values |-> DictPut(V, key, value),
          expirations |-> StringStore_set_exp(E, t, key, hasTtl, ttl),
          lists |-> L]

\* Store.set_key
Store_set_key(KT, V, E, L, t, key, value, hasTtl, ttl) ==
    IF hasTtl /\ ttl < 0
    THEN [ret |-> RetValueError, key_types |-> KT, values |-> V,
          expirations |-> E, lists |-> L]
    ELSE LET d == IF key \in DOMAIN KT /\ KT[key] # "string"
                  THEN Store_delete_key(KT, V, E, L, key)
                  ELSE [key_types |-> KT, values |-> V, expirations |-> E,
                        lists |-> L]
         IN [ret |-> RetNone,
             key_types |-> DictPut(d.key_types, key, "string"),
             values |-> DictPut(d.values, key, value),
             expirations |-> StringStore_set_exp(d.expirations, t, key, hasTtl, ttl),
             lists |-> d.lists]

\* Store.get_key
Store_get_key(KT, V, E, t, key) ==
    IF key \notin DOMAIN KT
    THEN [ret |-> RetNone, key_types |-> KT, values |-> V, expirations |-> E]
    ELSE IF KT[key] = "string"
    THEN StringStore_get(KT, V, E, t, key)
    ELSE [ret |-> RetTypeError, key_types |-> KT, values |-> V,
          expirations |-> E]

\* StringStore.flushdb: on_delete (Store._on_key_deleted) for every key it
\* holds, then both tables cleared
StringStore_flushdb(KT, V, E) ==
    [key_types |-> [k \in DOMAIN KT \ DOMAIN V |-> KT[k]],
     values |-> EmptyDict, expirations |-> EmptyDict]

\* ListStore.flushdb
ListStore_flushdb(L) == EmptyDict

\* Store.flushdb that forgets the kind bindings
Store_flushdb_bound(KT, V, E, L) ==
    LET s == StringStore_flushdb(KT, V, E)
    IN [ret |-> RetBool(TRUE), key_types |-> s.key_types,
        values |-> s.values, expirations |-> s.expirations,
        lists |-> ListStore_flushdb(L)]

\* Store.flushdb: every store flushed, then key_types cleared
Store_flushdb(KT, V, E, L) ==
    LET s == StringStore_flushdb(KT, V, E)
    IN [ret |-> RetBool(TRUE), key_types |-> EmptyDict,
        values |-> s.values, expirations |-> s.expirations,
        lists |-> ListStore_flushdb(L)]

WrongType(KT, key) == key \in DOMAIN KT /\ KT[key] # "list"

\* the binding written by Store.rpush / lpush / llen and Store._get_store
\* when the key has no kind yet
BindList(KT, key) == IF key \in DOMAIN KT THEN KT ELSE DictPut(KT, key, "list")

\* Store.rpush without the kind test
Store_rpush_unchecked(KT, L, key, vals) ==
    LET after == ListStore_rpush(L, key, vals)
    IN [ret |-> RetInt(Len(after[key])), key_types |-> BindList(KT, key),
        lists |-> after]

\* Store.rpush
Store_rpush(KT, L, key, vals) ==
    IF WrongType(KT, key)
    THEN [ret |-> RetTypeError, key_types |-> KT, lists |-> L]
    ELSE LET after == ListStore_rpush(L, key, vals)
         IN [ret |-> RetInt(Len(after[key])), key_types |-> BindList(KT, key),
             lists |-> after]

\* Store.lpush
Store_lpush(KT, L, key, vals) ==
    IF WrongType(KT, key)
    THEN [ret |-> RetTypeError, key_types |-> KT, lists |-> L]
    ELSE LET after == ListStore_lpush(L, key, vals)
         IN [ret |-> RetInt(Len(after[key])), key_types |-> BindList(KT, key),
             lists |-> after]

\* Store.llen
Store_llen(KT, L, key) ==
    IF WrongType(KT, key)
    THEN [ret |-> RetTypeError, key_types |-> KT, lists |-> L]
    ELSE [ret |-> RetInt(ListStore_llen(L, key)),
          key_types |-> BindList(KT, key), lists |-> L]

\* Store.lrange, through Store._get_store(key, "list")
Store_lrange(KT, L, key, start, end) ==
    IF WrongType(KT, key)
    THEN [ret |-> RetTypeError, key_types |-> KT, lists |-> L]
    ELSE [ret |-> RetList(ListStore_lrange(L, key, start, end)),
          key_types |-> BindList(KT, key), lists |-> L]

\* Store.lpop
Store_lpop(KT, L, key, hasCount, count) ==
    IF WrongType(KT, key)
    THEN [ret |-> RetTypeError, key_types |-> KT, lists |-> L]
    ELSE LET r == ListStore_lpop(L, key, hasCount, count)
         IN [ret |-> r.ret, key_types |-> KT, lists |-> r.lists]


\* ---------------------------------------------------------- StreamStore
\* The text of an entry id.  "explicit" is <ms>-<seq>, "autoseq" is <ms>-*,
\* "star" is * alone and "bad" is any text the grammar rejects.  A negative
\* part of an "explicit" text is a leading minus sign in the text.
Explicit(ms, seq) == [form |-> "explicit", ms |-> ms, seq |-> seq]
AutoSeq(ms) == [form |-> "autoseq", ms |-> ms, seq |-> -1]
Star == [form |-> "star", ms |-> -1, seq |-> -1]
BadId == [form |-> "bad", ms |-> 0, seq |-> 0]

\* f"{timestamp}-{sequence}"
FormatId(timestamp, sequence) == Explicit(timestamp, sequence)

\* re.match(r"^\d+-\d+$|^\d+-\*$|^\*$", entry_id)
MatchesGrammar(id) ==
    \/ id.form = "star"
    \/ id.form = "autoseq" /\ id.ms >= 0
    \/ id.form = "explicit" /\ id.ms >= 0 /\ id.seq >= 0

Parsed(ts, sq) == [err |-> "", ts |-> ts, seq |-> sq]
ParseErr(e) == [err |-> e, ts |-> 0, seq |-> 0]

\* StreamStore._parse_entry_id
ParseEntryId(id) ==
    IF ~MatchesGrammar(id) THEN ParseErr("Invalid")
    ELSE IF id.form = "star" THEN Parsed(-1, -1)
    ELSE IF id.form = "autoseq" THEN Parsed(id.ms, -1)
    ELSE IF id.ms = 0 /\ id.seq = 0 THEN ParseErr("GreaterThan00")
    ELSE IF id.ms > MaxId \/ id.seq > MaxId THEN ParseErr("NotValid")
    ELSE Parsed(id.ms, id.seq)

\* key not in self.streams or not self.streams[key]
StreamEmpty(S, key) == key \notin DOMAIN S \/ S[key] = <<>>
\* self.streams[key][-1]["id"]
LastId(S, key) == S[key][Len(S[key])]

\* StreamStore._validate_entry_id_order that accepts an equal sequence
ValidateEntryIdOrder_dup(S, key, new_timestamp, new_sequence) ==
    IF StreamEmpty(S, key) THEN ""
    ELSE LET l == ParseEntryId(LastId(S, key))
         IN IF l.err # "" THEN l.err
            ELSE IF new_timestamp < l.ts THEN "EqualOrSmaller"
            ELSE IF new_timestamp = l.ts /\ new_sequence < l.seq
            THEN "EqualOrSmaller"
            ELSE ""

\* StreamStore._validate_entry_id_order: the error it raises, "" for none
ValidateEntryIdOrder(S, key, new_timestamp, new_sequence) ==
    IF StreamEmpty(S, key) THEN ""
    ELSE LET l == ParseEntryId(LastId(S, key))
         IN IF l.err # "" THEN l.err
            ELSE IF new_timestamp < l.ts THEN "EqualOrSmaller"
            ELSE IF new_timestamp = l.ts /\ new_sequence <= l.seq
            THEN "EqualOrSmaller"
            ELSE ""

\* StreamStore._get_next_sequence
GetNextSequence(S, key, timestamp) ==
    IF StreamEmpty(S, key)
    THEN [err |-> "", seq |-> IF timestamp = 0 THEN 1 ELSE 0]
    ELSE LET l == ParseEntryId(LastId(S, key))
         IN IF l.err # "" THEN [err |-> l.err, seq |-> 0]
            ELSE IF timestamp > l.ts
            THEN [err |-> "", seq |-> IF timestamp = 0 THEN 1 ELSE 0]
            ELSE IF timestamp = l.ts
            THEN [err |-> "", seq |-> l.seq + 1]
            ELSE [err |-> "EqualOrSmaller", seq |-> 0]

XErr(e, S) == [ret |-> [kind |-> e, id |-> BadId], streams |-> S]

\* entry = {"id": entry_id, **field_value_pairs}; entry["id"] is what the
\* stream keeps of the entry: a field named id replaces the id
StoredId(entry_id, field_value_pairs) ==
    IF "id" \in DOMAIN field_value_pairs THEN field_value_pairs["id"]
    ELSE entry_id

\* StreamStore.xadd that creates the key's list before it validates the id
StreamStore_xadd_early(S, key, entry_id, field_value_pairs) ==
    LET S1 == IF key \in DOMAIN S THEN S ELSE DictPut(S, key, <<>>)
    IN IF field_value_pairs = EmptyDict THEN XErr("WrongArgs", S1)
       ELSE LET p == ParseEntryId(entry_id)
            IN IF p.err # "" THEN XErr(p.err, S1)
               ELSE LET n == IF p.seq = -1 THEN GetNextSequence(S1, key, p.ts)
                             ELSE [err |-> "", seq |-> p.seq]
                        id == IF p.seq = -1 THEN FormatId(p.ts, n.seq)
                              ELSE entry_id
                        v == ValidateEntryIdOrder(S1, key, p.ts, n.seq)
                    IN IF n.err # "" THEN XErr(n.err, S1)
                       ELSE IF v # "" THEN XErr(v, S1)
                       ELSE [ret |-> [kind |-> "id", id |-> id],
                             streams |-> DictPut(S1, key,
                                 S1[key] \o <<StoredId(id, field_value_pairs)>>)]

\* StreamStore.xadd
StreamStore_xadd(S, key, entry_id, field_value_pairs) ==
    IF field_value_pairs = EmptyDict THEN XErr("WrongArgs", S)
    ELSE LET p == ParseEntryId(entry_id)
         IN IF p.err # "" THEN XErr(p.err, S)
            ELSE LET n == IF p.seq = -1 THEN GetNextSequence(S, key, p.ts)
                          ELSE [err |-> "", seq |-> p.seq]
                     id == IF p.seq = -1 THEN FormatId(p.ts, n.seq) ELSE entry_id
                     v == ValidateEntryIdOrder(S, key, p.ts, n.seq)
                 IN IF n.err # "" THEN XErr(n.err, S)
                    ELSE IF v # "" THEN XErr(v, S)
                    ELSE [ret |-> [kind |-> "id", id |-> id],
                          streams |-> DictPut(S, key,
                              (IF key \in DOMAIN S THEN S[key] ELSE <<>>)
                                  \o <<StoredId(id, field_value_pairs)>>)]

\* StreamStore.delete
StreamStore_delete(S, key) == DictPop(S, key)


\* ------------------------------------------------ the Store, called directly
Waiters == 1 .. NWaiters
Vals == 1 .. MaxVal
ValSeqs == UNION {[1 .. n -> Vals] : n \in 1 .. MaxVals}

NoArgs == [keys |-> <<>>, timeout |-> 0]
NilReply == [kind |-> "nil", key |-> "", val |-> 0]
\* execute ended with CancelledError: nothing is written to the client
CancelledReply == [kind |-> "cancelled", key |-> "", val |-> 0]

InitStoreVars ==
    /\ key_types = EmptyDict
    /\ values = EmptyDict
    /\ expirations = EmptyDict
    /\ lists = EmptyDict
    /\ now = 0
    /\ last = Call("init", "", "none", RetNone)

InitLoopVars ==
    /\ notification_handlers = EmptyDict
    /\ ready = <<>>
    /\ pc = [w \in Waiters |-> "idle"]
    /\ bargs = [w \in Waiters |-> NoArgs]
    /\ event = [w \in Waiters |-> FALSE]
    /\ future = [w \in Waiters |-> "none"]
    /\ result = [w \in Waiters |-> NilReply]
    /\ task = [w \in Waiters |-> "none"]
    /\ reply = [w \in Waiters |-> NilReply]
    /\ closed = [w \in Waiters |-> 0]
    /\ timerFired = [w \in Waiters |-> FALSE]
    /\ npush = 0
    /\ npop = 0
    /\ regLog = <<>>
    /\ nsig = [w \in Waiters |-> 0]
    /\ shutdown = FALSE
    /\ hcancel = [w \in Waiters |-> "no"]

XCall(op, key, id, ret) ==
    [op |-> op, key |-> key, id |-> id, ret |-> ret, fields |-> EmptyDict]
XNone == [kind |-> "none", id |-> BadId]

InitStreamVars ==
    /\ streams = EmptyDict
    /\ xlast = XCall("init", "", BadId, XNone)

\* a connection that has just been accepted: nothing received, nothing
\* written, handle_connection about to read
InitConnVars ==
    /\ arrived = <<>>
    /\ sock = <<>>
    /\ data = <<>>
    /\ cstate = "read"
    /\ current = 0
    /\ eof = FALSE
    /\ written = <<>>

\* ---- CommandDispatcher
\* The store and the blocking manager a dispatcher holds are objects: only
\* their identity matters here.
StoreObj == "<store>"
ManagerObj == "<blocking_manager>"

\* what a handler's execute / execute_blocking receives: positional
\* arguments in order and keyword arguments by name
Invocation(handler, method, args, kwargs) ==
    [raised |-> "", handler |-> handler, method |-> method,
     args |-> args, kwargs |-> kwargs]
NoHandler == [name |-> "", blocking |-> FALSE]
Raised(e) ==
    [raised |-> e, handler |-> NoHandler, method |-> "",
     args |-> <<>>, kwargs |-> EmptyDict]
NoCall == Raised("")

\* a fresh CommandDispatcher: nothing registered, nothing dispatched
InitDispVars ==
    /\ commands = EmptyDict
    /\ dcall = [name |-> "", args |-> <<>>, made |-> NoCall]

\* ---- RESP2 values
\* A Python value of the reply path: str (simple string), int, bytes (bulk
\* string), None (nil bulk), list (array), NullArray (nil array).  s is the
\* text as a sequence of characters.
Value(t, s, n, items) == [t |-> t, s |-> s, n |-> n, items |-> items]
SimpleString(s) == Value("str", s, 0, <<>>)
Integer(n) == Value("int", <<>>, n, <<>>)
BulkString(s) == Value("bytes", s, 0, <<>>)
NilBulkValue == Value("None", <<>>, 0, <<>>)
Array(items) == Value("list", <<>>, 0, items)
NilArrayValue == Value("NullArray", <<>>, 0, <<>>)
NoValue == Value("", <<>>, 0, <<>>)

\* ---- BlockingManager
Futs == 1 .. NFutures
\* a future of wait_for_pop(key): st is "none" before the call, then
\* "pending", "result" (rkey, val) or "cancelled"; returned once the call
\* has run its finally block
Fut(st, key, rkey, val, returned) ==
    [st |-> st, key |-> key, rkey |-> rkey, val |-> val, returned |-> returned]
NoFut == Fut("none", "", "", 0, FALSE)
BmTables(WC, AF, FUT) == [waiting_clients |-> WC, active_futures |-> AF, futures |-> FUT]
BmCall(key, val, ret, target, before, after) ==
    [key |-> key, val |-> val, ret |-> ret, target |-> target,
     before |-> before, after |-> after]

\* BlockingManager.__init__
InitBmVars ==
    /\ waiting_clients = EmptyDict
    /\ active_futures = {}
    /\ futures = [f \in Futs |-> NoFut]
    /\ bcall = BmCall("", 0, FALSE, 0,
                      BmTables(EmptyDict, {}, [f \in Futs |-> NoFut]),
                      BmTables(EmptyDict, {}, [f \in Futs |-> NoFut]))
    /\ bserved = [f \in Futs |-> 0]

\* ---- BlockingQueueManager
Ops == 1 .. NOps
\* a BlockingOperation and the wait_for_push call that made it: st is the
\* state of its future ("none" before the call)
Operation(st, key, val, ev, keys, returned) ==
    [st |-> st, key |-> key, val |-> val, event |-> ev, keys |-> keys,
     returned |-> returned]
NoOperation == Operation("none", "", 0, FALSE, <<>>, FALSE)

\* BlockingQueueManager.__init__
InitQmVars ==
    /\ waiting_operations = EmptyDict
    /\ active_operations = {}
    /\ operation = [o \in Ops |-> NoOperation]
    /\ qtasks = <<>>
    /\ qlog = <<>>
    /\ qgot = {}

\* nothing encoded, nothing parsed
InitRespVars ==
    /\ rv = NoValue
    /\ wire = <<>>
    /\ back = NoValue

\* nothing pushed, nothing popped
InitHistVars ==
    /\ pushed = [k \in Keys |-> <<>>]
    /\ popped = [k \in Keys |-> <<>>]

Init ==
    /\ InitStoreVars /\ InitLoopVars /\ InitStreamVars /\ InitConnVars
    /\ InitDispVars
    /\ InitHistVars
    /\ InitRespVars
    /\ InitQmVars
    /\ InitBmVars

\* Store.set_key(key, value, ttl)
SetKey(key, value, hasTtl, ttl) ==
    LET r == Store_set_key(key_types, values, expirations, lists, now,
                           key, value, hasTtl, ttl)
    IN /\ key_types' = r.key_types
       /\ values' = r.values
       /\ expirations' = r.expirations
       /\ lists' = r.lists
       /\ last' = Call("set_key", key, KindOf(key_types, key), r.ret)
                     @@ [hasTtl |-> hasTtl, ttl |-> ttl, value |-> value,
                         hadExp |-> key \in DOMAIN expirations,
                         hadList |-> key \in DOMAIN lists]
       /\ UNCHANGED <<now, loopVars, streamVars, connVars, dispVars, respVars, qmVars, bmVars, histVars>>

\* Store.get_key(key)
GetKey(key) ==
    LET r == Store_get_key(key_types, values, expirations, now, key)
    IN /\ key_types' = r.key_types
       /\ values' = r.values
       /\ expirations' = r.expirations
       /\ last' = Call("get_key", key, KindOf(key_types, key), r.ret)
       /\ UNCHANGED <<lists, now, loopVars, streamVars, connVars, dispVars, respVars, qmVars, bmVars, histVars>>

\* Store.rpush(key, *values), no event loop running: no notification task
RPush(key, vals) ==
    LET r == Store_rpush(key_types, lists, key, vals)
    IN /\ ListStore_llen(lists, key) + Len(vals) <= MaxLen
       /\ key_types' = r.key_types
       /\ lists' = r.lists
       /\ last' = Call("rpush", key, KindOf(key_types, key), r.ret)
                     @@ [vals |-> vals]
       /\ UNCHANGED <<values, expirations, now, loopVars, streamVars, connVars, dispVars, respVars, qmVars, bmVars, histVars>>

\* Store.lpush(key, *values)
LPush(key, vals) ==
    LET r == Store_lpush(key_types, lists, key, vals)
    IN /\ ListStore_llen(lists, key) + Len(vals) <= MaxLen
       /\ key_types' = r.key_types
       /\ lists' = r.lists
       /\ last' = Call("lpush", key, KindOf(key_types, key), r.ret)
                     @@ [vals |-> vals]
       /\ UNCHANGED <<values, expirations, now, loopVars, streamVars, connVars, dispVars, respVars, qmVars, bmVars, histVars>>

\* Store.lpop(key, count)
LPop(key, hasCount, count) ==
    LET r == Store_lpop(key_types, lists, key, hasCount, count)
    IN /\ key_types' = r.key_types
       /\ lists' = r.lists
       /\ last' = Call(IF hasCount THEN "lpop_count" ELSE "lpop", key,
                       KindOf(key_types, key), r.ret) @@ [count |-> count]
       /\ UNCHANGED <<values, expirations, now, loopVars, streamVars, connVars, dispVars, respVars, qmVars, bmVars, histVars>>

\* Store.llen(key)
LLen(key) ==
    LET r == Store_llen(key_types, lists, key)
    IN /\ key_types' = r.key_types
       /\ lists' = r.lists
       /\ last' = Call("llen", key, KindOf(key_types, key), r.ret)
       /\ UNCHANGED <<values, expirations, now, loopVars, streamVars, connVars, dispVars, respVars, qmVars, bmVars, histVars>>

\* Store.lrange(key, start, end)
LRange(key, start, end) ==
    LET r == Store_lrange(key_types, lists, key, start, end)
    IN /\ key_types' = r.key_types
       /\ lists' = r.lists
       /\ last' = Call("lrange", key, KindOf(key_types, key), r.ret)
       /\ UNCHANGED <<values, expirations, now, loopVars, streamVars, connVars, dispVars, respVars, qmVars, bmVars, histVars>>

\* Store.delete_key(key)
DeleteKey(key) ==
    LET r == Store_delete_key(key_types, values, expirations, lists, key)
    IN /\ key_types' = r.key_types
       /\ values' = r.values
       /\ expirations' = r.expirations
       /\ lists' = r.lists
       /\ last' = Call("delete_key", key, KindOf(key_types, key), r.ret)
       /\ UNCHANGED <<now, loopVars, streamVars, connVars, dispVars, respVars, qmVars, bmVars, histVars>>

\* Store.flushdb()
FlushDb ==
    LET r == Store_flushdb(key_types, values, expirations, lists)
    IN /\ key_types' = r.key_types
       /\ values' = r.values
       /\ expirations' = r.expirations
       /\ lists' = r.lists
       /\ last' = Call("flushdb", "", "none", r.ret)
                     @@ [hadExp |-> expirations # EmptyDict,
                         hadLists |-> lists # EmptyDict]
    /\ UNCHANGED <<now, loopVars, streamVars, connVars, dispVars, respVars, qmVars, bmVars, histVars>>

\* the injected clock (Store.set_time_function) moves forward
Tick ==
    /\ now < MaxClock
    /\ now' = now + 1
    /\ last' = Call("tick", "", "none", RetNone)
    /\ UNCHANGED <<key_types, values, expirations, lists, loopVars, streamVars, connVars, dispVars, respVars, qmVars, bmVars, histVars>>

NextStore ==
    \/ \E k \in Keys, v \in Vals, h \in BOOLEAN, t \in -1 .. MaxTTL :
          SetKey(k, v, h, IF h THEN t ELSE 0)
    \/ \E k \in Keys : GetKey(k)
    \/ \E k \in Keys, vs \in ValSeqs : RPush(k, vs)
    \/ \E k \in Keys, vs \in ValSeqs : LPush(k, vs)
    \/ \E k \in Keys, h \in BOOLEAN, c \in -1 .. MaxCount :
          LPop(k, h, IF h THEN c ELSE 0)
    \/ \E k \in Keys : LLen(k)
    \/ \E k \in Keys, a \in -MaxIdx .. MaxIdx, b \in -MaxIdx .. MaxIdx :
          LRange(k, a, b)
    \/ \E k \in Keys : DeleteKey(k)
    \/ FlushDb
    \/ Tick

SpecStore == Init /\ [][NextStore]_vars

\* --------------------------------------------- the StreamStore, called directly
IdParts == 0 .. MaxId + 1
IdSpecs == {Explicit(m, q) : m \in IdParts, q \in IdParts}
               \cup {AutoSeq(m) : m \in IdParts} \cup {Star, BadId}

\* the fields of an XADD: none, one field that is not named id, or a field
\* named id whose value is the text of an id
IdFieldVals == {Explicit(0, 0), Explicit(MaxId, 0)}
FieldDicts == {EmptyDict, DictPut(EmptyDict, "f", BadId)}
                  \cup {DictPut(EmptyDict, "id", t) : t \in IdFieldVals}

\* the number of entries in all streams
RECURSIVE EntriesOf(_, _)
EntriesOf(S, ks) ==
    IF ks = {} THEN 0
    ELSE LET k == CHOOSE x \in ks : TRUE
         IN Len(S[k]) + EntriesOf(S, ks \ {k})
Entries(S) == EntriesOf(S, DOMAIN S)

\* StreamStore.xadd(key, entry_id, **field_value_pairs)
XAdd(key, entry_id, field_value_pairs) ==
    LET r == StreamStore_xadd(streams, key, entry_id, field_value_pairs)
    IN /\ r.ret.kind = "id" => Entries(r.streams) <= MaxEntries
       /\ streams' = r.streams
       /\ xlast' = [XCall("xadd", key, entry_id, r.ret)
                        EXCEPT !.fields = field_value_pairs]
       /\ UNCHANGED <<storeVars, last, loopVars, connVars, dispVars, respVars, qmVars, bmVars, histVars>>

\* StreamStore.delete(key)
StreamDelete(key) ==
    /\ streams' = StreamStore_delete(streams, key)
    /\ xlast' = XCall("delete", key, BadId,
                      [kind |-> IF key \in DOMAIN streams THEN "true" ELSE "false",
                       id |-> BadId])
    /\ UNCHANGED <<storeVars, last, loopVars, connVars, dispVars, respVars, qmVars, bmVars, histVars>>

\* StreamStore.flushdb()
StreamFlush ==
    /\ streams' = EmptyDict
    /\ xlast' = XCall("flushdb", "", BadId, XNone)
    /\ UNCHANGED <<storeVars, last, loopVars, connVars, dispVars, respVars, qmVars, bmVars, histVars>>

NextStream ==
    \/ \E k \in Keys, id \in IdSpecs, f \in FieldDicts : XAdd(k, id, f)
    \/ \E k \in Keys : StreamDelete(k)
    \/ StreamFlush

SpecStream == Init /\ [][NextStream]_vars


\* ------------------------------------------------- BLPOP on the event loop
\* A callback or task step waiting in the loop's ready queue
H(t, w, k, vs) == [t |-> t, w |-> w, k |-> k, vs |-> vs]

KeySeqs == {<<"k1">>, <<"k2">>, <<"k1", "k2">>}
Timeouts == {0, 1}      \* "0" and a positive number of seconds
EmptyStr == 0           \* the list value that str() turns into ""

Pair(k, v) == [kind |-> "pair", key |-> k, val |-> v]
ErrReply(kind) == [kind |-> kind, key |-> "", val |-> 0]

\* ---- the reply on the wire (app/resp2/formatter.py, app/connection.py)

NilBulk == "$-1"        \* format_response(None)
NilArray == "*-1"       \* the RESP2 null array; only parser.encode writes it
NoBytes == ""           \* nothing is written

\* format_error
format_error(message) == "-" \o message

\* format_response, on what a command returned: None, a [key, value] list
\* (an array of two elements), an int
format_response(r) ==
    IF r.kind \in {"nil", "none"} THEN NilBulk
    ELSE IF r.kind = "pair" THEN "*2"
    ELSE IF r.kind = "int" THEN ":"
    ELSE IF r.kind = "str" THEN "+"
    ELSE "$"

\* _execute_command then _send_response: an Exception becomes the bytes of
\* format_error and is written as is, a CancelledError passes through and
\* nothing is written, anything else goes through format_response
SendResponse(r) ==
    IF r.kind = "cancelled" THEN NoBytes
    ELSE IF r.kind \in {"nil", "none", "pair", "int", "str", "value"}
         THEN format_response(r)
         ELSE format_error(r.kind)

SeqToSet(q) == {q[i] : i \in 1 .. Len(q)}

\* BLPopCommand._check_wrong_type
CheckWrongType(KT, keys) ==
    \E key \in SeqToSet(keys) : key \in DOMAIN KT /\ KT[key] # "list"

\* has_lists of BLPopCommand.execute
HasLists(KT, keys) ==
    \E key \in SeqToSet(keys) : key \in DOMAIN KT /\ KT[key] = "list"

\* BLPopCommand._try_pop
RECURSIVE TryPop(_, _, _)
TryPop(KT, L, keys) ==
    IF keys = <<>>
    THEN [out |-> "none", key |-> "", val |-> 0, lists |-> L]
    ELSE LET key == Head(keys)
         IN IF key \notin DOMAIN KT \/ KT[key] # "list"
            THEN TryPop(KT, L, Tail(keys))
            ELSE LET r == Store_lpop(KT, L, key, FALSE, 0)
                 IN IF r.ret.kind = "value"
                    THEN IF r.ret.val # EmptyStr
                         THEN [out |-> "pair", key |-> key, val |-> r.ret.val,
                               lists |-> r.lists]
                         ELSE TryPop(KT, r.lists, Tail(keys))
                    ELSE IF ListStore_llen(L, key) = 0
                         \* store.delete(key): Store has no such attribute
                         THEN [out |-> "AttributeError", key |-> key, val |-> 0,
                               lists |-> L]
                         ELSE TryPop(KT, L, Tail(keys))

\* the pop loop of try_pop_after_notification
RECURSIVE TaskPop(_, _, _)
TaskPop(KT, L, keys) ==
    IF keys = <<>>
    THEN [found |-> FALSE, key |-> "", val |-> 0, lists |-> L]
    ELSE LET key == Head(keys)
         IN IF key \in DOMAIN KT /\ KT[key] = "list"
            THEN LET r == Store_lpop(KT, L, key, FALSE, 0)
                 IN IF r.ret.kind = "value"
                    THEN [found |-> TRUE, key |-> key, val |-> r.ret.val,
                          lists |-> r.lists]
                    ELSE TaskPop(KT, L, Tail(keys))
            ELSE TaskPop(KT, L, Tail(keys))

\* BlockingQueueManager.add_notification_handler, for every key of the call
AddHandlers(NH, keys, w) ==
    [k \in (DOMAIN NH) \cup SeqToSet(keys) |->
        IF k \in SeqToSet(keys)
        THEN (IF k \in DOMAIN NH THEN NH[k] ELSE {}) \cup {w}
        ELSE NH[k]]

\* BlockingQueueManager.remove_notification_handler for one key
RemoveHandler(NH, key, w) ==
    IF key \notin DOMAIN NH THEN NH
    ELSE IF NH[key] \ {w} = {} THEN DictPop(NH, key)
    ELSE DictPut(NH, key, NH[key] \ {w})

\* a cleanup that stops after the first key
RemoveHandlers_first(NH, keys, w) ==
    IF keys = <<>> THEN NH ELSE RemoveHandler(NH, Head(keys), w)

\* the cleanup loop in the finally block of _wait_for_element
RECURSIVE RemoveHandlers(_, _, _)
RemoveHandlers(NH, keys, w) ==
    IF keys = <<>> THEN NH
    ELSE RemoveHandlers(RemoveHandler(NH, Head(keys), w), Tail(keys), w)

\* the handlers notify_push may take for a key: next(iter(set)) follows the
\* hash order of the handler objects, which is any order
Candidates(NH, key) == IF key \in DOMAIN NH THEN NH[key] ELSE {}

\* ListStore.rpush creates one notify_push task per appended value
NotifyTasks(key, vals) == [i \in 1 .. Len(vals) |-> H("notify", 0, key, <<vals[i]>>)]


\* BLPopCommand._wait_for_element up to the registration of the handlers
WaitOutcome(KT, L, keys, timeout) ==
    LET p == TryPop(KT, L, keys)
    IN IF p.out = "pair"
       THEN [act |-> "reply", reply |-> Pair(p.key, p.val), lists |-> p.lists]
       ELSE IF p.out = "AttributeError"
       THEN [act |-> "reply", reply |-> ErrReply("AttributeError"), lists |-> p.lists]
       ELSE IF timeout = 0
       THEN [act |-> "reply", reply |-> NilReply, lists |-> p.lists]
       ELSE [act |-> "register", reply |-> NilReply, lists |-> p.lists]

\* BLPopCommand.execute up to its first suspension
BlpopOutcome(KT, L, keys, timeout) ==
    IF CheckWrongType(KT, keys)
    THEN [act |-> "reply", reply |-> ErrReply("WRONGTYPE"), lists |-> L]
    ELSE IF ~HasLists(KT, keys)
    THEN IF timeout = 0
         THEN [act |-> "reply", reply |-> NilReply, lists |-> L]
         ELSE WaitOutcome(KT, L, keys, timeout)
    ELSE LET p == TryPop(KT, L, keys)
         IN IF p.out = "pair"
            THEN [act |-> "reply", reply |-> Pair(p.key, p.val), lists |-> p.lists]
            ELSE IF p.out = "AttributeError"
            THEN [act |-> "reply", reply |-> ErrReply("AttributeError"),
                  lists |-> p.lists]
            ELSE IF timeout = 0
            THEN [act |-> "reply", reply |-> NilReply, lists |-> p.lists]
            ELSE WaitOutcome(KT, p.lists, keys, timeout)

strVars == <<values, expirations, now, last>>

\* what the environment has done so far: values pushed, LPOPs, expired
\* timers, closed connections and the shutdown
EnvCount == npush + npop + Cardinality({w \in Waiters : timerFired[w]})
            + Cardinality({w \in Waiters : closed[w] # 0})
            + (IF shutdown THEN 1 ELSE 0)
NextReady(more) == ready' = Tail(ready) \o more
HeadIs(t) == ready # <<>> /\ Head(ready).t = t

\* a client connection receives a BLPOP frame (handle_connection reads it)
SendBLPop(w, keys, timeout) ==
    /\ ~shutdown
    /\ pc[w] = "idle"
    /\ \A x \in Waiters : x < w => pc[x] # "idle"
    /\ pc' = [pc EXCEPT ![w] = "sent"]
    /\ bargs' = [bargs EXCEPT ![w] = [keys |-> keys, timeout |-> timeout]]
    /\ ready' = Append(ready, H("blpop", w, "", <<>>))
    /\ UNCHANGED <<key_types, lists, strVars, streamVars, connVars, dispVars, respVars, qmVars, bmVars, histVars, downVars, notification_handlers, event,
                   future, result, task, reply, closed, timerFired,
                   npush, npop, regLog, nsig>>

\* another client's RPUSH frame arrives; the n-th value pushed is n
SendRPush(key, n) ==
    /\ ~shutdown
    /\ npush + n <= MaxPush /\ EnvCount + n <= MaxEnv
    /\ npush' = npush + n
    /\ ready' = Append(ready, H("rpush", 0, key, [i \in 1 .. n |-> npush + i]))
    /\ UNCHANGED <<key_types, lists, strVars, streamVars, connVars, dispVars, respVars, qmVars, bmVars, histVars, downVars, notification_handlers, pc, bargs,
                   event, future, result, task, reply, closed, timerFired, npop, regLog, nsig>>

\* another client's LPOP frame arrives
SendLPop(key) ==
    /\ ~shutdown
    /\ npop < MaxPop /\ EnvCount < MaxEnv
    /\ npop' = npop + 1
    /\ ready' = Append(ready, H("lpop", 0, key, <<>>))
    /\ UNCHANGED <<key_types, lists, strVars, streamVars, connVars, dispVars, respVars, qmVars, bmVars, histVars, downVars, notification_handlers, pc, bargs,
                   event, future, result, task, reply, closed, timerFired, npush, regLog, nsig>>

\* BLPopCommand.execute answers without suspending
BLPopReply(w) ==
    /\ ~shutdown
    /\ HeadIs("blpop") /\ Head(ready).w = w
    /\ LET o == BlpopOutcome(key_types, lists, bargs[w].keys, bargs[w].timeout)
       IN /\ o.act = "reply"
          /\ lists' = o.lists
          /\ reply' = [reply EXCEPT ![w] = o.reply]
    /\ pc' = [pc EXCEPT ![w] = "done"]
    /\ NextReady(<<>>)
    /\ UNCHANGED <<key_types, strVars, streamVars, connVars, dispVars, respVars, qmVars, bmVars, histVars, downVars, notification_handlers, bargs, event,
                   future, result, task, closed, timerFired, npush,
                   npop, regLog, nsig>>

\* BLPopCommand.execute reaches _wait_for_element: it creates the future, the
\* event and the pop task, registers on_notify under every key and suspends
\* in asyncio.wait_for
BLPopRegister(w) ==
    /\ ~shutdown
    /\ HeadIs("blpop") /\ Head(ready).w = w
    /\ LET o == BlpopOutcome(key_types, lists, bargs[w].keys, bargs[w].timeout)
       IN /\ o.act = "register"
          /\ lists' = o.lists
    /\ future' = [future EXCEPT ![w] = "pending"]
    /\ event' = [event EXCEPT ![w] = FALSE]
    /\ task' = [task EXCEPT ![w] = "new"]
    /\ notification_handlers' = AddHandlers(notification_handlers, bargs[w].keys, w)
    /\ regLog' = Append(regLog, w)
    /\ pc' = [pc EXCEPT ![w] = "wait"]
    /\ NextReady(<<H("task", w, "", <<>>)>>)
    /\ UNCHANGED <<key_types, strVars, streamVars, connVars, dispVars, respVars, qmVars, bmVars, histVars, downVars, bargs, result, reply, closed, timerFired, npush, npop, nsig>>

\* Store.rpush inside the running loop: ListStore.rpush appends every value
\* and creates a notify_push task for each
ExecRPush ==
    /\ ~shutdown
    /\ HeadIs("rpush")
    /\ LET h == Head(ready)
           r == Store_rpush(key_types, lists, h.k, h.vs)
       IN /\ key_types' = r.key_types
          /\ lists' = r.lists
          /\ NextReady(IF r.ret.kind = "int" THEN NotifyTasks(h.k, h.vs) ELSE <<>>)
    /\ UNCHANGED <<strVars, streamVars, connVars, dispVars, respVars, qmVars, bmVars, histVars, downVars, notification_handlers, pc, bargs, event, future,
                   result, task, reply, closed, timerFired, npush,
                   npop, regLog, nsig>>

\* Store.lpop (no count) issued by another client
ExecLPop ==
    /\ ~shutdown
    /\ HeadIs("lpop")
    /\ LET r == Store_lpop(key_types, lists, Head(ready).k, FALSE, 0)
       IN /\ key_types' = r.key_types
          /\ lists' = r.lists
    /\ NextReady(<<>>)
    /\ UNCHANGED <<strVars, streamVars, connVars, dispVars, respVars, qmVars, bmVars, histVars, downVars, notification_handlers, pc, bargs, event, future,
                   result, task, reply, closed, timerFired, npush,
                   npop, regLog, nsig>>

\* BlockingQueueManager.notify_push finds no handler under the key
NotifyNone ==
    /\ ~shutdown
    /\ HeadIs("notify")
    /\ Candidates(notification_handlers, Head(ready).k) = {}
    /\ NextReady(<<>>)
    /\ UNCHANGED <<key_types, lists, strVars, streamVars, connVars, dispVars, respVars, qmVars, bmVars, histVars, downVars, notification_handlers, pc, bargs,
                   event, future, result, task, reply, closed, timerFired, npush, npop, regLog, nsig>>

\* BlockingQueueManager.notify_push takes one handler of the key, removes it
\* from that key and schedules _call_handler
NotifyHandler(h) ==
    /\ ~shutdown
    /\ HeadIs("notify")
    /\ h \in Candidates(notification_handlers, Head(ready).k)
    /\ notification_handlers' = RemoveHandler(notification_handlers, Head(ready).k, h)
    /\ nsig' = [nsig EXCEPT ![h] = @ + 1]
    /\ NextReady(<<H("call", h, Head(ready).k, Head(ready).vs)>>)
    /\ UNCHANGED <<key_types, lists, strVars, streamVars, connVars, dispVars, respVars, qmVars, bmVars, histVars, downVars, pc, bargs, event, future, result,
                   task, reply, closed, timerFired, npush, npop,
                   regLog>>

\* BlockingQueueManager._call_handler runs on_notify, which sets the event
\* once; a task suspended in event.wait() becomes ready
CallHandler ==
    /\ ~shutdown
    /\ HeadIs("call")
    /\ LET h == Head(ready).w
       IN /\ event' = [event EXCEPT ![h] = TRUE]
          /\ IF ~event[h] /\ task[h] = "evwait"
             THEN /\ task' = [task EXCEPT ![h] = "woken"]
                  /\ NextReady(<<H("task", h, "", <<>>)>>)
             ELSE /\ task' = task
                  /\ NextReady(<<>>)
    /\ UNCHANGED <<key_types, lists, strVars, streamVars, connVars, dispVars, respVars, qmVars, bmVars, histVars, downVars, notification_handlers, pc, bargs,
                   future, result, reply, closed, timerFired, npush,
                   npop, regLog, nsig>>


\* first step of try_pop_after_notification: it suspends in event.wait()
TaskStart(w) ==
    /\ HeadIs("task") /\ Head(ready).w = w
    /\ task[w] = "new" /\ ~event[w]
    /\ task' = [task EXCEPT ![w] = "evwait"]
    /\ NextReady(<<>>)
    /\ UNCHANGED <<key_types, lists, strVars, streamVars, connVars, dispVars, respVars, qmVars, bmVars, histVars, downVars, notification_handlers, pc, bargs,
                   event, future, result, reply, closed, timerFired,
                   npush, npop, regLog, nsig>>

\* try_pop_after_notification after event.wait(): it pops from the first key
\* that yields a value and completes the future, whose done callback
\* releases the waiter of asyncio.wait_for
TaskPopStep(w) ==
    /\ HeadIs("task") /\ Head(ready).w = w
    /\ task[w] = "woken" \/ (task[w] = "new" /\ event[w])
    /\ LET p == TaskPop(key_types, lists, bargs[w].keys)
       IN /\ lists' = p.lists
          /\ result' = [result EXCEPT ![w] =
                           IF p.found THEN Pair(p.key, p.val) ELSE @]
          /\ IF future[w] = "pending"
             THEN /\ future' = [future EXCEPT ![w] =
                                   IF p.found THEN "true" ELSE "false"]
                  /\ NextReady(<<H("release", w, "", <<1>>)>>)
             ELSE /\ future' = future
                  /\ NextReady(<<>>)
    /\ task' = [task EXCEPT ![w] = "done"]
    /\ UNCHANGED <<key_types, strVars, streamVars, connVars, dispVars, respVars, qmVars, bmVars, histVars, downVars, notification_handlers, pc, bargs, event,
                   reply, closed, timerFired, npush, npop, regLog,
                   nsig>>

\* the cancelled pop task ends with CancelledError, which wakes a caller
\* suspended in `await task`
TaskCancelled(w) ==
    /\ HeadIs("task") /\ Head(ready).w = w
    /\ task[w] = "cancelling"
    /\ task' = [task EXCEPT ![w] = "cancelled"]
    /\ NextReady(IF pc[w] = "join" THEN <<H("resume", w, "", <<>>)>> ELSE <<>>)
    /\ UNCHANGED <<key_types, lists, strVars, streamVars, connVars, dispVars, respVars, qmVars, bmVars, histVars, downVars, notification_handlers, pc, bargs,
                   event, future, result, reply, closed, timerFired,
                   npush, npop, regLog, nsig>>

\* the timer of asyncio.wait_for(future, timeout) expires
TimerFire(w) ==
    /\ ~shutdown
    /\ pc[w] = "wait" /\ bargs[w].timeout > 0 /\ ~timerFired[w]
    /\ EnvCount < MaxEnv
    /\ timerFired' = [timerFired EXCEPT ![w] = TRUE]
    /\ ready' = Append(ready, H("release", w, "", <<1>>))
    /\ UNCHANGED <<key_types, lists, strVars, streamVars, connVars, dispVars, respVars, qmVars, bmVars, histVars, downVars, notification_handlers, pc, bargs,
                   event, future, result, task, reply, closed, npush,
                   npop, regLog, nsig>>

\* the peer closes the connection; handle_connection is suspended in
\* _execute_command and does not read the socket
ClientClose(w) ==
    /\ ~shutdown
    /\ pc[w] = "wait"
    /\ Cardinality({x \in Waiters : closed[x] # 0}) < MaxClose
    /\ EnvCount < MaxEnv
    /\ closed' = [closed EXCEPT ![w] = npush + 1]
    /\ UNCHANGED <<key_types, lists, strVars, streamVars, connVars, dispVars, respVars, qmVars, bmVars, histVars, downVars, notification_handlers, ready, pc,
                   bargs, event, future, result, task, reply, timerFired, npush,
                   npop, regLog, nsig>>

\* the callback that releases the waiter the BLPOP caller is suspended on:
\* stage 1 inside wait_for (timer or future done), stage 2 after the
\* future was cancelled
Release(w) ==
    /\ HeadIs("release") /\ Head(ready).w = w
    /\ LET stage == Head(ready).vs[1]
       IN IF hcancel[w] = "pending"
          THEN /\ pc' = pc
               /\ NextReady(<<>>)
          ELSE IF stage = 1 /\ pc[w] = "wait"
          THEN /\ pc' = [pc EXCEPT ![w] = "waitR"]
               /\ NextReady(<<H("resume", w, "", <<>>)>>)
          ELSE IF stage = 2 /\ pc[w] = "cancelw"
          THEN /\ pc' = [pc EXCEPT ![w] = "cancelR"]
               /\ NextReady(<<H("resume", w, "", <<>>)>>)
          ELSE /\ pc' = pc
               /\ NextReady(<<>>)
    /\ UNCHANGED <<key_types, lists, strVars, streamVars, connVars, dispVars, respVars, qmVars, bmVars, histVars, downVars, notification_handlers, bargs,
                   event, future, result, task, reply, closed, timerFired, npush, npop, regLog, nsig>>

\* wait_for resumes and the future is done: _wait_for_element returns
\* result, its finally block removes the handlers from every key
ResumeDone(w) ==
    /\ HeadIs("resume") /\ Head(ready).w = w
    /\ hcancel[w] # "pending"
    /\ pc[w] = "waitR" /\ future[w] \in {"true", "false"}
    /\ notification_handlers' =
           RemoveHandlers(notification_handlers, bargs[w].keys, w)
    /\ reply' = [reply EXCEPT ![w] = result[w]]
    /\ pc' = [pc EXCEPT ![w] = "done"]
    /\ NextReady(<<>>)
    /\ UNCHANGED <<key_types, lists, strVars, streamVars, connVars, dispVars, respVars, qmVars, bmVars, histVars, downVars, bargs, event, future, result,
                   task, closed, timerFired, npush, npop, regLog,
                   nsig>>

\* wait_for resumes on the timer with the future still pending: it cancels
\* the future and waits for the cancellation to be delivered
ResumeTimeout(w) ==
    /\ HeadIs("resume") /\ Head(ready).w = w
    /\ hcancel[w] # "pending"
    /\ pc[w] = "waitR" /\ future[w] = "pending"
    /\ future' = [future EXCEPT ![w] = "cancelled"]
    /\ pc' = [pc EXCEPT ![w] = "cancelw"]
    /\ NextReady(<<H("release", w, "", <<2>>)>>)
    /\ UNCHANGED <<key_types, lists, strVars, streamVars, connVars, dispVars, respVars, qmVars, bmVars, histVars, downVars, notification_handlers, bargs,
                   event, result, task, reply, closed, timerFired,
                   npush, npop, regLog, nsig>>

\* TimeoutError reaches _wait_for_element; the pop task is not done, so the
\* finally block cancels it and awaits it
FinallyCancelTask(w) ==
    /\ HeadIs("resume") /\ Head(ready).w = w
    /\ hcancel[w] # "pending"
    /\ pc[w] = "cancelR" /\ task[w] \in {"new", "evwait", "woken", "cancelling"}
    /\ task' = [task EXCEPT ![w] = "cancelling"]
    /\ pc' = [pc EXCEPT ![w] = "join"]
    /\ NextReady(IF task[w] = "evwait" THEN <<H("task", w, "", <<>>)>> ELSE <<>>)
    /\ UNCHANGED <<key_types, lists, strVars, streamVars, connVars, dispVars, respVars, qmVars, bmVars, histVars, downVars, notification_handlers, bargs,
                   event, future, result, reply, closed, timerFired,
                   npush, npop, regLog, nsig>>

\* the finally block of _wait_for_element removes the handlers (the pop task
\* is done or has been awaited); execute returns None after a timeout and
\* ends with CancelledError after a cancellation
FinallyDone(w) ==
    /\ HeadIs("resume") /\ Head(ready).w = w
    /\ hcancel[w] # "pending"
    /\ \/ pc[w] = "cancelR" /\ task[w] \in {"done", "cancelled"}
       \/ pc[w] = "join"
    /\ notification_handlers' =
           RemoveHandlers(notification_handlers, bargs[w].keys, w)
    /\ reply' = [reply EXCEPT ![w] =
                     IF hcancel[w] = "raised" THEN CancelledReply ELSE NilReply]
    /\ pc' = [pc EXCEPT ![w] = "done"]
    /\ NextReady(<<>>)
    /\ UNCHANGED <<key_types, lists, strVars, streamVars, connVars, dispVars, respVars, qmVars, bmVars, histVars, downVars, bargs, event, future, result,
                   task, closed, timerFired, npush, npop, regLog,
                   nsig>>

\* every order in which the elements of a set can be enumerated
RECURSIVE Perms(_)
Perms(S) ==
    IF S = {} THEN {<<>>}
    ELSE UNION {{<<x>> \o p : p \in Perms(S \ {x})} : x \in S}

\* a shutdown that closes the listeners and cancels nothing
Shutdown_listeners ==
    /\ ~shutdown
    /\ EnvCount < MaxEnv
    /\ shutdown' = TRUE
    /\ UNCHANGED <<key_types, lists, strVars, streamVars, connVars, dispVars, respVars, qmVars, bmVars, histVars, notification_handlers,
                   ready, pc, bargs, event, future, result, task, reply,
                   closed, timerFired, npush, npop, regLog, nsig, hcancel>>

\* the shutdown of main(): run_server has returned and every task that is
\* not done is cancelled, in the order of asyncio.all_tasks() (a set).  A
\* task suspended on a pending future is woken by the cancellation; a task
\* whose wake-up is already scheduled gets the CancelledError when it runs.
Shutdown ==
    /\ ~shutdown
    /\ EnvCount < MaxEnv
    /\ shutdown' = TRUE
    /\ hcancel' = [w \in Waiters |->
                      IF pc[w] \in {"wait", "waitR", "cancelw", "cancelR"}
                      THEN "pending" ELSE hcancel[w]]
    /\ task' = [w \in Waiters |->
                   IF task[w] \in {"new", "evwait", "woken"}
                   THEN "cancelling" ELSE task[w]]
    /\ \E order \in Perms(
              {H("resume", w, "", <<>>) :
                   w \in {x \in Waiters : pc[x] \in {"wait", "cancelw"}}}
              \cup {H("task", w, "", <<>>) :
                   w \in {x \in Waiters : task[x] = "evwait"}}) :
           ready' = ready \o order
    /\ UNCHANGED <<key_types, lists, strVars, streamVars, connVars, dispVars, respVars, qmVars, bmVars, histVars, notification_handlers,
                   pc, bargs, event, future, result, reply, closed, timerFired,
                   npush, npop, regLog, nsig>>

\* the first step of a task that was cancelled before it ran: a connection
\* task that had read a frame, a notify_push or a _call_handler task
DropCancelled ==
    /\ shutdown
    /\ ready # <<>>
    /\ Head(ready).t \in {"blpop", "rpush", "lpop", "notify", "call"}
    /\ IF Head(ready).t = "blpop"
       THEN /\ pc' = [pc EXCEPT ![Head(ready).w] = "done"]
            /\ reply' = [reply EXCEPT ![Head(ready).w] = CancelledReply]
       ELSE UNCHANGED <<pc, reply>>
    /\ NextReady(<<>>)
    /\ UNCHANGED <<key_types, lists, strVars, streamVars, connVars, dispVars, respVars, qmVars, bmVars, histVars, downVars,
                   notification_handlers, bargs, event, future, result, task,
                   closed, timerFired, npush, npop, regLog, nsig>>

\* CancelledError reaches the caller inside asyncio.wait_for: with the
\* future done wait_for returns its result (the cancellation is lost) and
\* _wait_for_element returns as usual; with the future pending wait_for
\* cancels it and waits for the cancellation before it re-raises
ResumeCancelWait(w) ==
    /\ HeadIs("resume") /\ Head(ready).w = w
    /\ hcancel[w] = "pending"
    /\ pc[w] \in {"wait", "waitR"}
    /\ IF future[w] \in {"true", "false"}
       THEN /\ notification_handlers' =
                   RemoveHandlers(notification_handlers, bargs[w].keys, w)
            /\ reply' = [reply EXCEPT ![w] = result[w]]
            /\ pc' = [pc EXCEPT ![w] = "done"]
            /\ hcancel' = [hcancel EXCEPT ![w] = "no"]
            /\ future' = future
            /\ NextReady(<<>>)
       ELSE /\ future' = [future EXCEPT ![w] = "cancelled"]
            /\ pc' = [pc EXCEPT ![w] = "cancelw"]
            /\ hcancel' = [hcancel EXCEPT ![w] = "raised"]
            /\ NextReady(<<H("release", w, "", <<2>>)>>)
            /\ UNCHANGED <<notification_handlers, reply>>
    /\ UNCHANGED <<key_types, lists, strVars, streamVars, connVars, dispVars, respVars, qmVars, bmVars, histVars, shutdown, bargs,
                   event, result, task, closed, timerFired, npush, npop,
                   regLog, nsig>>

\* CancelledError reaches the caller while wait_for waits for the cancelled
\* future after a timeout: it leaves wait_for and _wait_for_element runs its
\* finally block
ResumeCancelInner(w) ==
    /\ HeadIs("resume") /\ Head(ready).w = w
    /\ hcancel[w] = "pending"
    /\ pc[w] \in {"cancelw", "cancelR"}
    /\ hcancel' = [hcancel EXCEPT ![w] = "raised"]
    /\ IF task[w] \in {"done", "cancelled"}
       THEN /\ notification_handlers' =
                   RemoveHandlers(notification_handlers, bargs[w].keys, w)
            /\ reply' = [reply EXCEPT ![w] = CancelledReply]
            /\ pc' = [pc EXCEPT ![w] = "done"]
       ELSE /\ pc' = [pc EXCEPT ![w] = "join"]
            /\ UNCHANGED <<notification_handlers, reply>>
    /\ NextReady(<<>>)
    /\ UNCHANGED <<key_types, lists, strVars, streamVars, connVars, dispVars, respVars, qmVars, bmVars, histVars, shutdown, bargs,
                   event, future, result, task, closed, timerFired, npush,
                   npop, regLog, nsig>>

Next ==
    \/ \E w \in Waiters, ks \in KeySeqs, t \in Timeouts : SendBLPop(w, ks, t)
    \/ \E k \in Keys, n \in 1 .. MaxPushVals : SendRPush(k, n)
    \/ \E k \in Keys : SendLPop(k)
    \/ \E w \in Waiters : BLPopReply(w)
    \/ \E w \in Waiters : BLPopRegister(w)
    \/ ExecRPush
    \/ ExecLPop
    \/ NotifyNone
    \/ \E h \in Waiters : NotifyHandler(h)
    \/ CallHandler
    \/ \E w \in Waiters : TaskStart(w)
    \/ \E w \in Waiters : TaskPopStep(w)
    \/ \E w \in Waiters : TaskCancelled(w)
    \/ \E w \in Waiters : TimerFire(w)
    \/ \E w \in Waiters : ClientClose(w)
    \/ \E w \in Waiters : Release(w)
    \/ \E w \in Waiters : ResumeDone(w)
    \/ \E w \in Waiters : ResumeTimeout(w)
    \/ \E w \in Waiters : FinallyCancelTask(w)
    \/ \E w \in Waiters : FinallyDone(w)
    \/ Shutdown
    \/ DropCancelled
    \/ \E w \in Waiters : ResumeCancelWait(w)
    \/ \E w \in Waiters : ResumeCancelInner(w)

Spec == Init /\ [][Next]_vars

\* one iteration of the event loop: the callback or task step at the head of
\* the ready queue runs (BaseEventLoop._run_once)
RunOnce ==
    \/ \E w \in Waiters : BLPopReply(w)
    \/ \E w \in Waiters : BLPopRegister(w)
    \/ ExecRPush
    \/ ExecLPop
    \/ NotifyNone
    \/ \E h \in Waiters : NotifyHandler(h)
    \/ CallHandler
    \/ \E w \in Waiters : TaskStart(w)
    \/ \E w \in Waiters : TaskPopStep(w)
    \/ \E w \in Waiters : TaskCancelled(w)
    \/ \E w \in Waiters : Release(w)
    \/ \E w \in Waiters : ResumeDone(w)
    \/ \E w \in Waiters : ResumeTimeout(w)
    \/ \E w \in Waiters : FinallyCancelTask(w)
    \/ \E w \in Waiters : FinallyDone(w)
    \/ DropCancelled
    \/ \E w \in Waiters : ResumeCancelWait(w)
    \/ \E w \in Waiters : ResumeCancelInner(w)

\* the loop keeps running while its ready queue is not empty:
\* run_until_complete(run_server()), then run_until_complete(gather(...))
SpecLive == Init /\ [][Next]_vars /\ WF_vars(RunOnce)


\* ------------------------------------ the list store as a queue: a client
\* that only calls Store.rpush, Store.lpop and Store.llen and keeps what it
\* pushed and what it got back

\* the values a reply of lpop carries: none, one, or a list
Returned(ret) ==
    IF ret.kind = "value" THEN <<ret.val>>
    ELSE IF ret.kind = "list" THEN ret.vals
    ELSE <<>>

FifoRPush(key, vals) ==
    LET r == Store_rpush(key_types, lists, key, vals)
    IN /\ Len(pushed[key]) + Len(vals) <= MaxPushed
       /\ ListStore_llen(lists, key) + Len(vals) <= MaxLen
       /\ key_types' = r.key_types
       /\ lists' = r.lists
       /\ last' = Call("rpush", key, KindOf(key_types, key), r.ret)
                     @@ [vals |-> vals]
       /\ pushed' = [pushed EXCEPT ![key] = @ \o vals]
       /\ UNCHANGED <<values, expirations, now, loopVars, streamVars,
                      connVars, dispVars, respVars, qmVars, bmVars, popped>>

FifoLPop(key, hasCount, count) ==
    LET r == Store_lpop(key_types, lists, key, hasCount, count)
    IN /\ key_types' = r.key_types
       /\ lists' = r.lists
       /\ last' = Call(IF hasCount THEN "lpop_count" ELSE "lpop", key,
                       KindOf(key_types, key), r.ret)
       /\ popped' = [popped EXCEPT ![key] = @ \o Returned(r.ret)]
       /\ UNCHANGED <<values, expirations, now, loopVars, streamVars,
                      connVars, dispVars, respVars, qmVars, bmVars, pushed>>

FifoLLen(key) ==
    LET r == Store_llen(key_types, lists, key)
    IN /\ key_types' = r.key_types
       /\ lists' = r.lists
       /\ last' = Call("llen", key, KindOf(key_types, key), r.ret)
       /\ UNCHANGED <<values, expirations, now, loopVars, streamVars,
                      connVars, dispVars, respVars, qmVars, bmVars, histVars>>

NextFifo ==
    \/ \E k \in Keys, vs \in ValSeqs : FifoRPush(k, vs)
    \/ \E k \in Keys, h \in BOOLEAN, c \in 1 .. MaxCount :
          FifoLPop(k, h, IF h THEN c ELSE 0)
    \/ \E k \in Keys : FifoLLen(k)

SpecFifo == Init /\ [][NextFifo]_vars


\* ------------------------------------------- LRANGE over every index pair
\* A store that holds one list under k1, of any contents up to MaxLen, and
\* nothing under k2; only Store.lrange is called.
InitRange ==
    /\ \E l \in UNION {[1 .. n -> Vals] : n \in 1 .. MaxLen} :
          lists = DictPut(EmptyDict, "k1", l)
    /\ key_types = DictPut(EmptyDict, "k1", "list")
    /\ values = EmptyDict
    /\ expirations = EmptyDict
    /\ now = 0
    /\ last = Call("init", "", "none", RetNone)
    /\ InitLoopVars /\ InitStreamVars /\ InitConnVars
    /\ InitDispVars /\ InitHistVars /\ InitRespVars /\ InitQmVars
    /\ InitBmVars

\* Store.lrange(key, start, end)
RangeCall(key, start, end) ==
    LET r == Store_lrange(key_types, lists, key, start, end)
    IN /\ key_types' = r.key_types
       /\ lists' = r.lists
       /\ last' = Call("lrange", key, KindOf(key_types, key), r.ret)
                     @@ [start |-> start, end |-> end]
       /\ UNCHANGED <<values, expirations, now, loopVars, streamVars,
                      connVars, dispVars, respVars, qmVars, bmVars, histVars>>

NextRange ==
    \E k \in Keys, a \in -MaxRange .. MaxRange, b \in -MaxRange .. MaxRange :
        RangeCall(k, a, b)

SpecRange == InitRange /\ [][NextRange]_vars


\* ------------------------------------------- BLPOP on lists that are there
\* Store.rpush fills the lists, with the empty string among the values, and
\* BLPopCommand.execute is called with timeout 0, so that it answers from
\* _try_pop and never suspends.
PopVals == {EmptyStr} \cup Vals
PopValSeqs == UNION {[1 .. n -> PopVals] : n \in 1 .. MaxVals}

PopRPush(key, vals) ==
    LET r == Store_rpush(key_types, lists, key, vals)
    IN /\ ListStore_llen(lists, key) + Len(vals) <= MaxLen
       /\ key_types' = r.key_types
       /\ lists' = r.lists
       /\ last' = Call("rpush", key, KindOf(key_types, key), r.ret)
                     @@ [vals |-> vals]
       /\ UNCHANGED <<values, expirations, now, loopVars, streamVars,
                      connVars, dispVars, respVars, qmVars, bmVars, histVars>>

\* BLPOP key [key ...] 0; last keeps the lists as they were before the call
PopBLPop(keys) ==
    LET o == BlpopOutcome(key_types, lists, keys, 0)
    IN /\ o.act = "reply"
       /\ lists' = o.lists
       /\ last' = Call("blpop", "", "none", o.reply)
                     @@ [keys |-> keys, before |-> lists]
       /\ UNCHANGED <<key_types, values, expirations, now, loopVars,
                      streamVars, connVars, dispVars, respVars, qmVars, bmVars, histVars>>

NextPop ==
    \/ \E k \in Keys, vs \in PopValSeqs : PopRPush(k, vs)
    \/ \E ks \in KeySeqs : PopBLPop(ks)

SpecPop == Init /\ [][NextPop]_vars


\* ------------------------------------- one RPUSH while callers are blocked
\* Callers send BLPOP k1 <timeout> on an empty store and suspend; once the
\* loop is idle and every caller that sent one is suspended in wait_for,
\* another client sends a single RPUSH k1 with n values.  Timers may expire
\* at any moment.
BurstBLPop(w) ==
    /\ npush = 0
    /\ SendBLPop(w, <<"k1">>, 1)

BurstRPush(n) ==
    /\ npush = 0
    /\ ready = <<>>
    /\ \A w \in Waiters : pc[w] \in {"idle", "wait"}
    /\ SendRPush("k1", n)

NextBurst ==
    \/ \E w \in Waiters : BurstBLPop(w)
    \/ \E n \in 1 .. MaxBurst : BurstRPush(n)
    \/ \E w \in Waiters : BLPopRegister(w)
    \/ ExecRPush
    \/ NotifyNone
    \/ \E h \in Waiters : NotifyHandler(h)
    \/ CallHandler
    \/ \E w \in Waiters : TaskStart(w)
    \/ \E w \in Waiters : TaskPopStep(w)
    \/ \E w \in Waiters : TaskCancelled(w)
    \/ \E w \in Waiters : TimerFire(w)
    \/ \E w \in Waiters : Release(w)
    \/ \E w \in Waiters : ResumeDone(w)
    \/ \E w \in Waiters : ResumeTimeout(w)
    \/ \E w \in Waiters : FinallyCancelTask(w)
    \/ \E w \in Waiters : FinallyDone(w)

SpecBurst == Init /\ [][NextBurst]_vars


\* ------------------------------- BlockingQueueManager called on its own
\* wait_for_push, add_notification_handler and notify_push are awaited by
\* tasks of one event loop; the lock is never contended, so each runs up to
\* its first real suspension in one step.  The tasks notify_push creates run
\* later, in creation order.
SetAdd(D, key, x) ==
    DictPut(D, key, (IF key \in DOMAIN D THEN D[key] ELSE {}) \cup {x})
SetRemove(D, key, x) ==
    IF key \notin DOMAIN D THEN D
    ELSE IF D[key] \ {x} = {} THEN DictPop(D, key)
    ELSE DictPut(D, key, D[key] \ {x})

RECURSIVE AddOperation(_, _, _)
AddOperation(WO, keys, o) ==
    IF keys = <<>> THEN WO
    ELSE AddOperation(SetAdd(WO, Head(keys), o), Tail(keys), o)

\* BlockingQueueManager._cleanup_operation
cleanup_operation(WO, o) ==
    [k \in {j \in DOMAIN WO : WO[j] \ {o} # {}} |-> WO[k] \ {o}]

\* the operations notify_push may pick under key: the first in the set's
\* iteration order whose event is not set and whose future is not done
LiveOperations(WO, OP, key) ==
    {o \in (IF key \in DOMAIN WO THEN WO[key] ELSE {}) :
        ~OP[o].event /\ OP[o].st = "pending"}

QTask(t, target, key, val, call) ==
    [t |-> t, target |-> target, key |-> key, val |-> val, call |-> call]
QCall(key, val, ret, kind, target) ==
    [key |-> key, val |-> val, ret |-> ret, kind |-> kind, target |-> target]

\* wait_for_push(keys, timeout) with timeout > 0, up to asyncio.wait_for
QWait(o, keys) ==
    /\ operation[o].st = "none"
    /\ \A x \in Ops : x < o => operation[x].st # "none"
    /\ operation' = [operation EXCEPT
                        ![o] = Operation("pending", Head(keys), 0, FALSE, keys, FALSE)]
    /\ waiting_operations' = AddOperation(waiting_operations, keys, o)
    /\ active_operations' = active_operations \cup {o}
    /\ UNCHANGED <<storeVars, last, loopVars, streamVars, connVars, dispVars,
                   histVars, respVars, bmVars, qtasks, qlog, qgot>>

\* the timeout of wait_for expires with the future pending: the future is
\* cancelled, wait_for_push returns (None, None) and cleans up
QTimeout(o) ==
    /\ operation[o].st = "pending"
    /\ operation' = [operation EXCEPT ![o].st = "cancelled", ![o].returned = TRUE]
    /\ waiting_operations' = cleanup_operation(waiting_operations, o)
    /\ active_operations' = active_operations \ {o}
    /\ UNCHANGED <<storeVars, last, loopVars, streamVars, connVars, dispVars,
                   histVars, respVars, bmVars, qtasks, qlog, qgot>>

\* wait_for resumes with the result of the future: wait_for_push returns it
\* and cleans up
QReturn(o) ==
    /\ operation[o].st = "result" /\ ~operation[o].returned
    /\ operation' = [operation EXCEPT ![o].returned = TRUE]
    /\ waiting_operations' = cleanup_operation(waiting_operations, o)
    /\ active_operations' = active_operations \ {o}
    /\ UNCHANGED <<storeVars, last, loopVars, streamVars, connVars, dispVars,
                   histVars, respVars, bmVars, qtasks, qlog, qgot>>

\* add_notification_handler(key, handler)
QAddHandler(h, key) ==
    /\ h \notin Candidates(notification_handlers, key)
    /\ notification_handlers' = AddHandlers(notification_handlers, <<key>>, h)
    /\ UNCHANGED <<storeVars, last, ready, pc, bargs, event, future, result,
                   task, reply, closed, timerFired, npush, npop, regLog, nsig,
                   downVars, streamVars, connVars, dispVars, histVars,
                   respVars, qmVars, bmVars>>

\* notify_push(key, value); the n-th call carries the value n
QNotifyPush(key) ==
    LET n == Len(qlog) + 1
        live == LiveOperations(waiting_operations, operation, key)
        handlers == Candidates(notification_handlers, key)
    IN /\ n <= MaxNotify
       /\ IF live # {}
          THEN \E o \in live :
                  /\ waiting_operations' = SetRemove(waiting_operations, key, o)
                  /\ qtasks' = Append(qtasks, QTask("operation", o, key, n, n))
                  /\ qlog' = Append(qlog, QCall(key, n, TRUE, "operation", o))
                  /\ UNCHANGED notification_handlers
          ELSE IF handlers # {}
          THEN \E h \in handlers :
                  /\ notification_handlers' =
                         RemoveHandler(notification_handlers, key, h)
                  /\ qtasks' = Append(qtasks, QTask("handler", h, key, n, n))
                  /\ qlog' = Append(qlog, QCall(key, n, TRUE, "handler", h))
                  /\ UNCHANGED waiting_operations
          ELSE /\ qlog' = Append(qlog, QCall(key, n, FALSE, "none", 0))
               /\ UNCHANGED <<waiting_operations, notification_handlers, qtasks>>
       /\ UNCHANGED <<storeVars, last, ready, pc, bargs, event, future, result,
                      task, reply, closed, timerFired, npush, npop, regLog,
                      nsig, downVars, streamVars, connVars, dispVars, histVars,
                      respVars, bmVars, active_operations, operation, qgot>>

\* the oldest task runs: _notify_operation sets the result of a future that
\* is not done and the event; _call_handler calls the handler
QRunTask ==
    /\ qtasks # <<>>
    /\ LET t == Head(qtasks)
       IN IF t.t = "operation"
          THEN IF operation[t.target].st = "pending"
               THEN /\ operation' = [operation EXCEPT
                                        ![t.target].st = "result",
                                        ![t.target].key = t.key,
                                        ![t.target].val = t.val,
                                        ![t.target].event = TRUE]
                    /\ qgot' = qgot \cup {t.call}
               ELSE UNCHANGED <<operation, qgot>>
          ELSE /\ qgot' = qgot \cup {t.call}
               /\ UNCHANGED operation
    /\ qtasks' = Tail(qtasks)
    /\ UNCHANGED <<storeVars, last, loopVars, streamVars, connVars, dispVars,
                   histVars, respVars, bmVars, waiting_operations, active_operations,
                   qlog>>

NextQm ==
    \/ \E o \in Ops, ks \in KeySeqs : QWait(o, ks)
    \/ \E o \in Ops : QTimeout(o)
    \/ \E o \in Ops : QReturn(o)
    \/ \E h \in Waiters, k \in Keys : QAddHandler(h, k)
    \/ \E k \in Keys : QNotifyPush(k)
    \/ QRunTask

SpecQm == Init /\ [][NextQm]_vars


\* ----------------------------------------- BlockingManager called on its own
\* wait_for_pop is awaited by tasks of one event loop; notify_new_element
\* and cancel_all are plain calls.
RECURSIVE SeqRemove(_, _)
SeqRemove(q, x) ==
    IF q = <<>> THEN <<>>
    ELSE IF Head(q) = x THEN Tail(q)
    ELSE <<Head(q)>> \o SeqRemove(Tail(q), x)

\* the while loop of notify_new_element over the deque of one key: the
\* futures popped and found done, the first one not done, and what is left
RECURSIVE NotifyScan(_, _)
NotifyScan(q, FUT) ==
    IF q = <<>>
    THEN [found |-> FALSE, target |-> 0, rest |-> <<>>, dropped |-> {}]
    ELSE IF FUT[Head(q)].st = "pending"
    THEN [found |-> TRUE, target |-> Head(q), rest |-> Tail(q), dropped |-> {}]
    ELSE LET r == NotifyScan(Tail(q), FUT)
         IN [r EXCEPT !.dropped = @ \cup {Head(q)}]

\* a notify_new_element that looks at the oldest future only
notify_new_element_head(WC, AF, FUT, key, value) ==
    IF key \notin DOMAIN WC \/ WC[key] = <<>>
           \/ FUT[Head(WC[key])].st # "pending"
    THEN [ret |-> FALSE, target |-> 0, tables |-> BmTables(WC, AF, FUT)]
    ELSE LET f == Head(WC[key])
         IN [ret |-> TRUE, target |-> f,
             tables |-> BmTables(DictPut(WC, key, Tail(WC[key])), AF \ {f},
                                 [FUT EXCEPT ![f].st = "result",
                                             ![f].rkey = key,
                                             ![f].val = value])]

\* BlockingManager.notify_new_element
notify_new_element(WC, AF, FUT, key, value) ==
    IF key \notin DOMAIN WC \/ WC[key] = <<>>
    THEN [ret |-> FALSE, target |-> 0, tables |-> BmTables(WC, AF, FUT)]
    ELSE LET r == NotifyScan(WC[key], FUT)
         IN [ret |-> r.found, target |-> r.target,
             tables |->
                 BmTables(DictPut(WC, key, r.rest),
                          AF \ (r.dropped \cup
                                  (IF r.found THEN {r.target} ELSE {})),
                          IF r.found
                          THEN [FUT EXCEPT ![r.target].st = "result",
                                           ![r.target].rkey = key,
                                           ![r.target].val = value]
                          ELSE FUT)]

\* wait_for_pop(key, timeout) up to its await
BmWait(f, key) ==
    /\ futures[f].st = "none"
    /\ \A x \in Futs : x < f => futures[x].st # "none"
    /\ futures' = [futures EXCEPT ![f] = Fut("pending", key, "", 0, FALSE)]
    /\ waiting_clients' =
           DictPut(waiting_clients, key,
                   Append(IF key \in DOMAIN waiting_clients
                          THEN waiting_clients[key] ELSE <<>>, f))
    /\ active_futures' = active_futures \cup {f}
    /\ UNCHANGED <<storeVars, last, loopVars, streamVars, connVars, dispVars,
                   histVars, respVars, qmVars, bcall, bserved>>

\* the timeout of wait_for expires, or the caller's task is cancelled: the
\* pending future is cancelled; wait_for_pop has not resumed yet
BmExpire(f) ==
    /\ futures[f].st = "pending"
    /\ futures' = [futures EXCEPT ![f].st = "cancelled"]
    /\ UNCHANGED <<storeVars, last, loopVars, streamVars, connVars, dispVars,
                   histVars, respVars, qmVars, waiting_clients,
                   active_futures, bcall, bserved>>

\* wait_for_pop resumes with the result or the cancellation and runs its
\* finally block: _cleanup_future(key, future)
BmFinally(f) ==
    /\ futures[f].st \in {"result", "cancelled"} /\ ~futures[f].returned
    /\ futures' = [futures EXCEPT ![f].returned = TRUE]
    /\ active_futures' = active_futures \ {f}
    /\ waiting_clients' =
           IF futures[f].key \in DOMAIN waiting_clients
           THEN DictPut(waiting_clients, futures[f].key,
                        SeqRemove(waiting_clients[futures[f].key], f))
           ELSE waiting_clients
    /\ UNCHANGED <<storeVars, last, loopVars, streamVars, connVars, dispVars,
                   histVars, respVars, qmVars, bcall, bserved>>

\* notify_new_element(key, value); the n-th call carries the value n
BmNotify(key) ==
    LET n == bcall.val + 1
        r == notify_new_element(waiting_clients, active_futures, futures,
                                key, n)
    IN /\ n <= MaxElements
       /\ waiting_clients' = r.tables.waiting_clients
       /\ active_futures' = r.tables.active_futures
       /\ futures' = r.tables.futures
       /\ bcall' = BmCall(key, n, r.ret, r.target,
                          BmTables(waiting_clients, active_futures, futures),
                          r.tables)
       /\ bserved' = IF r.ret THEN [bserved EXCEPT ![r.target] = @ + 1]
                     ELSE bserved
       /\ UNCHANGED <<storeVars, last, loopVars, streamVars, connVars,
                      dispVars, histVars, respVars, qmVars>>

\* cancel_all()
BmCancelAll ==
    /\ active_futures # {}
    /\ futures' = [f \in Futs |->
                      IF f \in active_futures /\ futures[f].st = "pending"
                      THEN [futures[f] EXCEPT !.st = "cancelled"]
                      ELSE futures[f]]
    /\ waiting_clients' = EmptyDict
    /\ active_futures' = {}
    /\ UNCHANGED <<storeVars, last, loopVars, streamVars, connVars, dispVars,
                   histVars, respVars, qmVars, bcall, bserved>>

NextBm ==
    \/ \E f \in Futs, k \in Keys : BmWait(f, k)
    \/ \E f \in Futs : BmExpire(f)
    \/ \E f \in Futs : BmFinally(f)
    \/ \E k \in Keys : BmNotify(k)
    \/ BmCancelAll

SpecBm == Init /\ [][NextBm]_vars


\* ------------------------------------------------ RESP2 encode and parse
\* The bytes are kept as the sequence of their parts: a type byte with the
\* number or the line that follows it up to CRLF, and for a bulk string the
\* data of the announced length.
Part(tag, n, s) == [tag |-> tag, n |-> n, s |-> s]

\* encode(value)
RECURSIVE encode(_)
RECURSIVE EncodeItems(_)
EncodeItems(items) ==
    IF items = <<>> THEN <<>>
    ELSE LET item == Head(items)
         IN encode(IF item.t = "str" THEN BulkString(item.s) ELSE item)
                \o EncodeItems(Tail(items))
encode(value) ==
    IF value.t = "NullArray" THEN <<Part("*", -1, <<>>)>>
    ELSE IF value.t = "None" THEN <<Part("$", -1, <<>>)>>
    ELSE IF value.t = "str" THEN <<Part("+", 0, value.s)>>
    ELSE IF value.t = "int" THEN <<Part(":", value.n, <<>>)>>
    ELSE IF value.t = "bytes" THEN <<Part("$", Len(value.s), value.s)>>
    ELSE <<Part("*", Len(value.items), <<>>)>> \o EncodeItems(value.items)

\* RESP2Parser.parse: the value read and the bytes left in the stream
RECURSIVE parse(_)
RECURSIVE ParseItems(_, _)
ParseItems(stream, length) ==
    IF length = 0 THEN [items |-> <<>>, rest |-> stream]
    ELSE LET first == parse(stream)
             others == ParseItems(first.rest, length - 1)
         IN [items |-> <<first.value>> \o others.items, rest |-> others.rest]
parse(stream) ==
    LET part == Head(stream)
        rest == Tail(stream)
    IN IF part.tag = "+" THEN [value |-> SimpleString(part.s), rest |-> rest]
       ELSE IF part.tag = ":" THEN [value |-> Integer(part.n), rest |-> rest]
       ELSE IF part.tag = "$"
       THEN [value |-> IF part.n = -1 THEN NilBulkValue
                       ELSE BulkString(SubSeq(part.s, 1, part.n)),
             rest |-> rest]
       ELSE IF part.n = -1 THEN [value |-> Array(<<>>), rest |-> rest]
       ELSE LET r == ParseItems(rest, part.n)
            IN [value |-> Array(r.items), rest |-> r.rest]

\* the values tried: texts of at most one character, small integers, and
\* arrays of up to MaxItems of these
Texts == {<<>>, <<"a">>}
Scalars ==
    {SimpleString(s) : s \in Texts} \cup {BulkString(s) : s \in Texts}
        \cup {Integer(n) : n \in -MaxInt .. MaxInt}
        \cup {NilBulkValue, NilArrayValue}
ReplyValues ==
    Scalars \cup {Array(items) :
                     items \in UNION {[1 .. n -> Scalars] : n \in 0 .. MaxItems}}

\* encode(value) is called
EncodeCall(value) ==
    /\ rv' = value
    /\ wire' = encode(value)
    /\ back' = NoValue
    /\ UNCHANGED <<storeVars, last, loopVars, streamVars, connVars,
                   dispVars, histVars, qmVars, bmVars>>

\* the encoded bytes are fed to a reader and RESP2Parser(reader).parse() is
\* awaited
ParseCall ==
    /\ wire # <<>> /\ back = NoValue
    /\ back' = parse(wire).value
    /\ UNCHANGED <<storeVars, last, loopVars, streamVars, connVars,
                   dispVars, histVars, qmVars, bmVars, rv, wire>>

NextResp ==
    \/ \E value \in ReplyValues : EncodeCall(value)
    \/ ParseCall

SpecResp == Init /\ [][NextResp]_vars


\* ------------------------------------------------ one client connection
\* handle_connection, one frame = one complete RESP2 command.  A frame is
\* named by its position in the order of arrival.

\* PING, BLPOP k1 0, SET k1 1, RPUSH k1 1 and a name no handler has
Cmds == {"PING", "BLPOP", "SET", "RPUSH", "FOO"}
RetStr == [kind |-> "str", key |-> "", val |-> 0]       \* "PONG", "OK"

\* the messages of the exceptions a handler or the dispatcher raises
ErrorMessages == {"WRONGTYPE", "ValueError", "unknown command"}
IsError(bytes) == bytes \in {format_error(msg) : msg \in ErrorMessages}

\* CommandDispatcher.dispatch and the handler it finds, each handler
\* working on the store it is given: what _execute_command gets back (a
\* value or an exception) and the store afterwards
ExecuteCommand(cmd, KT, V, E, L, t) ==
    IF cmd = "PING"
    THEN [ret |-> RetStr, key_types |-> KT, values |-> V,
          expirations |-> E, lists |-> L]
    ELSE IF cmd = "SET"
    THEN LET r == Store_set_key(KT, V, E, L, t, "k1", 1, FALSE, 0)
         IN [ret |-> RetStr, key_types |-> r.key_types, values |-> r.values,
             expirations |-> r.expirations, lists |-> r.lists]
    ELSE IF cmd = "RPUSH"
    THEN LET r == Store_rpush(KT, L, "k1", <<1>>)
         IN [ret |-> r.ret, key_types |-> r.key_types, values |-> V,
             expirations |-> E, lists |-> r.lists]
    ELSE [ret |-> ErrReply("unknown command"), key_types |-> KT,
          values |-> V, expirations |-> E, lists |-> L]

\* RESP2Parser(data).parse() as handle_connection calls it.  With the
\* RESP2Parser of app/parser/parser.py parse() is a coroutine and unpacking
\* it raises TypeError; a parser built on the bytes yields the first command
\* of data.  Either way one call is made per read.
RESP2Parser_parse(d) ==
    {[ok |-> FALSE, frame |-> Head(d)], [ok |-> TRUE, frame |-> Head(d)]}

Written(f, bytes) == [frame |-> f, bytes |-> bytes]

\* the client sends one more command frame
ClientSend(cmd) ==
    /\ ~eof /\ cstate # "closed"
    /\ Len(arrived) < MaxFrames
    /\ arrived' = Append(arrived, cmd)
    /\ sock' = Append(sock, Len(arrived) + 1)
    /\ UNCHANGED <<storeVars, last, loopVars, streamVars, dispVars, respVars, qmVars, bmVars, histVars,
                   data, cstate, current, eof, written>>

\* the client closes its side of the connection
ClientEof ==
    /\ ~eof
    /\ eof' = TRUE
    /\ UNCHANGED <<storeVars, last, loopVars, streamVars, dispVars, respVars, qmVars, bmVars, histVars,
                   arrived, sock, data, cstate, current, written>>

\* data = await reader.read(1024): everything received so far; b"" at end
\* of stream, which ends the loop and closes the connection
ConnRead ==
    /\ cstate = "read"
    /\ sock # <<>> \/ eof
    /\ IF sock # <<>>
       THEN /\ data' = sock
            /\ sock' = <<>>
            /\ cstate' = "parse"
       ELSE /\ cstate' = "closed"
            /\ UNCHANGED <<data, sock>>
    /\ UNCHANGED <<storeVars, last, loopVars, streamVars, dispVars, respVars, qmVars, bmVars, histVars,
                   arrived, current, eof, written>>

\* the rest of the iteration: one parse, one _execute_command, one
\* _send_response, then back to reader.read.  A parse error is answered with
\* format_error; BLPOP suspends inside _execute_command.
ConnParse ==
    /\ cstate = "parse"
    /\ \E o \in RESP2Parser_parse(data) :
          IF ~o.ok
          THEN /\ written' = Append(written,
                        Written(o.frame, SendResponse(ErrReply("TypeError"))))
               /\ cstate' = "read"
               /\ UNCHANGED <<current, key_types, values, expirations, lists>>
          ELSE IF arrived[o.frame] = "BLPOP"
          THEN /\ cstate' = "exec"
               /\ current' = o.frame
               /\ UNCHANGED <<written, key_types, values, expirations, lists>>
          ELSE LET r == ExecuteCommand(arrived[o.frame], key_types, values,
                                 expirations, lists, now)
               IN /\ written' = Append(written,
                                       Written(o.frame, SendResponse(r.ret)))
                  /\ key_types' = r.key_types
                  /\ values' = r.values
                  /\ expirations' = r.expirations
                  /\ lists' = r.lists
                  /\ cstate' = "read"
                  /\ UNCHANGED current
    /\ UNCHANGED <<now, last, loopVars, streamVars, dispVars, respVars, qmVars, bmVars, histVars,
                   arrived, sock, data, eof>>

\* BLPOP returns, with a [key, value] pair or with None, and its reply is
\* written
ConnResume ==
    /\ cstate = "exec"
    /\ \E r \in {NilReply, Pair("k1", 1)} :
          written' = Append(written, Written(current, SendResponse(r)))
    /\ cstate' = "read"
    /\ UNCHANGED <<storeVars, last, loopVars, streamVars, dispVars, respVars, qmVars, bmVars, histVars,
                   arrived, sock, data, current, eof>>

NextConn ==
    \/ \E cmd \in Cmds : ClientSend(cmd)
    \/ ClientEof
    \/ ConnRead
    \/ ConnParse
    \/ ConnResume

SpecConn == Init /\ [][NextConn]_vars


\* ------------------------------------------------- the command dispatcher
\* the names clients send and str.upper() of each
Names == {"ping", "PING", "Ping", "lpop", "LPOP", "blpop", "BLPop", "foo"}
Upper(name) ==
    IF name \in {"ping", "PING", "Ping"} THEN "PING"
    ELSE IF name \in {"lpop", "LPOP"} THEN "LPOP"
    ELSE IF name \in {"blpop", "BLPop"} THEN "BLPOP"
    ELSE "FOO"

\* the handlers that can be registered: a Command has a name, a
\* BlockingCommand is a Command with execute_blocking
Handler(name, blocking) == [name |-> name, blocking |-> blocking]
Handlers ==
    {Handler("ping", FALSE), Handler("LPOP", FALSE), Handler("BLPop", TRUE)}

\* the argument lists of a dispatch call
ArgVals == {"a", "b"}
MaxArgs == 2
ArgSeqs == UNION {[1 .. n -> ArgVals] : n \in 0 .. MaxArgs}

\* CommandDispatcher.dispatch(command_name, *args): the call it makes on
\* the handler, or the exception it raises
dispatch(C, command_name, args) ==
    IF Upper(command_name) \notin DOMAIN C
    THEN Raised("unknown command")
    ELSE LET command == C[Upper(command_name)]
         IN IF command.blocking
            THEN Invocation(command, "execute_blocking",
                            <<StoreObj, ManagerObj>> \o args, EmptyDict)
            ELSE Invocation(command, "execute", <<StoreObj>> \o args,
                            EmptyDict)

\* CommandDispatcher.register(command)
Register(command) ==
    /\ commands' = DictPut(commands, Upper(command.name), command)
    /\ UNCHANGED <<storeVars, last, loopVars, streamVars, connVars, histVars, respVars, qmVars, bmVars, dcall>>

\* a call of CommandDispatcher.dispatch (or of its alias execute)
DispatchCall(command_name, args) ==
    /\ dcall' = [name |-> command_name, args |-> args,
                 made |-> dispatch(commands, command_name, args)]
    /\ UNCHANGED <<storeVars, last, loopVars, streamVars, connVars, histVars, respVars, qmVars, bmVars, commands>>

NextDispatch ==
    \/ \E command \in Handlers : Register(command)
    \/ \E command_name \in Names, args \in ArgSeqs :
           DispatchCall(command_name, args)

SpecDispatch == Init /\ [][NextDispatch]_vars


\* ================================================================ claims

\* ---- the blocking rendezvous (Spec)

\* C1: a BLPOP caller that has blocked returns nil only after its timeout
\* has elapsed; woken by a push it returns a [key, value] pair, whatever
\* other clients pop in between.
C1_BlockedNilOnlyOnTimeout ==
    \A w \in Waiters :
        (pc[w] = "done" /\ w \in SeqToSet(regLog) /\ reply[w] = NilReply)
            => timerFired[w]

\* C2: callers W1 then W2 blocked on the same key, two single-value pushes
\* to it and no other popper: W1 returns the first value, W2 the second.
C2_FifoOrder ==
    (/\ Len(regLog) = 2
     /\ npop = 0
     /\ \A w \in Waiters :
           /\ pc[w] = "done" /\ reply[w].kind = "pair"
           /\ ~timerFired[w]
           /\ bargs[w].keys = bargs[regLog[1]].keys
           /\ Len(bargs[w].keys) = 1)
        => (reply[regLog[1]].val = 1 /\ reply[regLog[2]].val = 2)

\* C3: BLPOP with timeout 0 never times out: it never answers nil.
C3_ZeroTimeoutNeverNil ==
    \A w \in Waiters :
        (pc[w] = "done" /\ bargs[w].timeout = 0) => reply[w] # NilReply

\* C4: with callers blocked on key k, every single-value push to k releases
\* exactly one of them with the value: once the loop is idle and nobody
\* else has popped, no caller is still blocked on a key whose list holds a
\* pushed value.
C4_OneWakePerPush ==
    (ready = <<>> /\ npop = 0)
        => \A k \in Keys, w \in Waiters :
              (pc[w] = "wait" /\ k \in SeqToSet(bargs[w].keys))
                  => ListStore_llen(lists, k) = 0

\* C5: a waiter is signalled at most once, whatever keys it registered on.
C5_SignalledAtMostOnce == \A w \in Waiters : nsig[w] <= 1

\* C6: a waiter that has timed out never consumes a push notification.
C6_TimedOutNeverNotified ==
    [][\A w \in Waiters :
          nsig'[w] > nsig[w] => pc[w] \notin {"cancelw", "cancelR", "join"}]_vars

\* C7: a value pushed after a blocked client's connection closed is never
\* consumed by that client's BLPOP.
C7_ClosedClientNeverConsumes ==
    \A w \in Waiters :
        (closed[w] # 0 /\ pc[w] = "done" /\ reply[w].kind = "pair")
            => reply[w].val < closed[w]

\* ---- the keyspace (SpecStore)

HeldByString(k) == k \in DOMAIN values
HeldByList(k) == k \in DOMAIN lists

\* C8: at most one store holds a key, and a store that holds a key is the
\* store of the key's declared kind.
C8_KindInvariant ==
    \A k \in Keys :
        /\ ~(HeldByString(k) /\ HeldByList(k))
        /\ HeldByString(k) => KindOf(key_types, k) = "string"
        /\ HeldByList(k) => KindOf(key_types, k) = "list"

\* set_key has just replaced a list by a string while the other key is a list
C8_Witness ==
    /\ last.op = "set_key" /\ last.was = "list"
    /\ HeldByString(last.key)
    /\ \E j \in Keys : HeldByList(j)

\* C9: a key has a kind binding if and only if the store of that kind holds
\* a value for it, and a held list is non-empty.
C9_BindingIffHeld ==
    \A k \in Keys :
        /\ k \in DOMAIN key_types <=>
              \/ (KindOf(key_types, k) = "string" /\ HeldByString(k))
              \/ (KindOf(key_types, k) = "list" /\ HeldByList(k))
        /\ HeldByList(k) => lists[k] # <<>>

\* C10: after the pop that removes the last element of list k, LLEN k is 0
\* and k has no kind binding (TYPE k is none).
C10_LastPopUnbinds ==
    (/\ last.op \in {"lpop", "lpop_count"}
     /\ last.ret.kind = "value" \/ (last.ret.kind = "list" /\ last.ret.vals # <<>>)
     /\ ~HeldByList(last.key))
        => /\ Store_llen(key_types, lists, last.key).ret = RetInt(0)
           /\ last.key \notin DOMAIN key_types

\* a string key whose TTL, if any, has not elapsed
LiveString(k) == HeldByString(k) /\ ~Expired(expirations, k, now)

\* C11: RPUSH, LPUSH, LPOP, LLEN and LRANGE on a key that holds a string, and
\* GET on a key that holds a list, fail with WRONGTYPE and change neither
\* key_types nor any store.
C11_WrongTypeLeavesState ==
    [][LET op == last'.op
           k == last'.key
       IN (\/ /\ op \in {"rpush", "lpush", "lpop", "lpop_count", "llen", "lrange"}
              /\ LiveString(k)
           \/ /\ op = "get_key"
              /\ HeldByList(k))
          => /\ last'.ret = RetTypeError
             /\ UNCHANGED <<key_types, values, expirations, lists>>]_vars

\* a list operation has just been refused on a string key while a list exists
C11_Witness ==
    /\ last.op = "rpush" /\ last.ret = RetTypeError
    /\ LiveString(last.key)
    /\ \E j \in Keys : HeldByList(j)

\* C12: a key set with TTL t at clock c has deadline c + t; GET returns its
\* value while the clock is at most the deadline, and nil once the clock is
\* past it, after which the key is in none of values, expirations, key_types.
C12_TtlExpiry ==
    [][LET k == last'.key
       IN /\ (last'.op = "set_key" /\ last'.ret = RetNone /\ last'.hasTtl)
               => (k \in DOMAIN expirations'
                   /\ expirations'[k] = now + last'.ttl)
          /\ (last'.op = "get_key" /\ HeldByString(k) /\ k \in DOMAIN expirations)
               => IF now <= expirations[k]
                  THEN /\ last'.ret = RetVal(values[k])
                       /\ UNCHANGED <<key_types, values, expirations>>
                  ELSE /\ last'.ret = RetNone
                       /\ k \notin DOMAIN values'
                       /\ k \notin DOMAIN expirations'
                       /\ k \notin DOMAIN key_types']_vars

\* a GET has just found a string key past its deadline
C12_Witness ==
    /\ last.op = "get_key" /\ last.was = "string" /\ last.ret = RetNone
    /\ now > 0
    /\ last.key \notin DOMAIN values

\* a string key that is still stored although its deadline has passed
ExpiredString(k) == HeldByString(k) /\ Expired(expirations, k, now)

\* C13: once a string key's TTL has elapsed the key is observed as absent:
\* RPUSH, LPUSH, LLEN and LRANGE on it do not fail with WRONGTYPE.
C13_ExpiredSeenAbsent ==
    [][(/\ last'.op \in {"rpush", "lpush", "llen", "lrange"}
        /\ ExpiredString(last'.key))
          => last'.ret # RetTypeError]_vars

\* ---- the stream store (SpecStream)

\* (ms, seq) of a is below (ms, seq) of b
IdLess(a, b) == a.ms < b.ms \/ (a.ms = b.ms /\ a.seq < b.seq)

\* C14: in every stream the stored ids are strictly increasing in (ms, seq)
\* order, and no stored id is 0-0.
C14_StreamMonotonic ==
    \A k \in DOMAIN streams :
        /\ \A i \in 1 .. Len(streams[k]) - 1 :
               IdLess(streams[k][i], streams[k][i + 1])
        /\ \A i \in 1 .. Len(streams[k]) :
               ~(streams[k][i].ms = 0 /\ streams[k][i].seq = 0)

\* an XADD has just been refused as equal-or-smaller on a stream of two entries
C14_Witness ==
    /\ xlast.op = "xadd" /\ xlast.ret.kind = "EqualOrSmaller"
    /\ xlast.key \in DOMAIN streams
    /\ Len(streams[xlast.key]) = 2

\* both parts of an id are within 0 .. 2^64 - 1
Fits64(id) == id.ms \in 0 .. MaxId /\ id.seq \in 0 .. MaxId

\* C15: every stored id and every id returned by XADD is <ms>-<seq> with both
\* parts within 0 .. 2^64 - 1.
C15_IdsFit64 ==
    /\ \A k \in DOMAIN streams :
           \A i \in 1 .. Len(streams[k]) : Fits64(streams[k][i])
    /\ (xlast.op = "xadd" /\ xlast.ret.kind = "id") => Fits64(xlast.ret.id)

\* C16: for an id spec ms-*, XADD resolves seq to 1 (ms = 0) or 0 (ms > 0)
\* when the stream is empty or ms is above the last ms, to last seq + 1 when
\* ms equals the last ms, and refuses as equal-or-smaller when ms is below.
C16_AutoSequence ==
    [][(/\ xlast'.op = "xadd" /\ xlast'.id.form = "autoseq"
        /\ xlast'.ret.kind # "WrongArgs")
         => LET key == xlast'.key
                ms == xlast'.id.ms
                empty == StreamEmpty(streams, key)
            IN IF empty \/ ms > LastId(streams, key).ms
               THEN xlast'.ret = [kind |-> "id",
                                  id |-> Explicit(ms, IF ms = 0 THEN 1 ELSE 0)]
               ELSE IF ms = LastId(streams, key).ms
               THEN xlast'.ret = [kind |-> "id",
                                  id |-> Explicit(ms, LastId(streams, key).seq + 1)]
               ELSE xlast'.ret.kind = "EqualOrSmaller"]_vars

\* ---- cleanup and shutdown of the blocking rendezvous (Spec)

\* C17: once a BLPOP call has returned (value, timeout or cancellation) none
\* of its handlers is registered under any key, and no key of
\* notification_handlers maps to an empty set.
C17_NoHandlerAfterReturn ==
    /\ \A w \in Waiters : pc[w] = "done" =>
           \A k \in DOMAIN notification_handlers :
               w \notin notification_handlers[k]
    /\ \A k \in DOMAIN notification_handlers : notification_handlers[k] # {}

\* a caller registered under two keys has been cancelled and has returned
\* while another caller is still registered
C17_Witness ==
    \E w \in Waiters :
        /\ pc[w] = "done" /\ reply[w] = CancelledReply
        /\ w \in SeqToSet(regLog) /\ Len(bargs[w].keys) = 2
        /\ notification_handlers # EmptyDict

\* ---- the reply on the wire (Spec)

\* C18: a BLPOP whose timeout elapses with no push is answered on the wire
\* with the nil array *-1, which is neither an error reply nor the nil bulk
\* $-1 that GET writes for a missing key.
C18_TimeoutNilArray ==
    \A w \in Waiters :
        (/\ pc[w] = "done" /\ w \in SeqToSet(regLog)
         /\ timerFired[w] /\ reply[w] = NilReply)
            => /\ SendResponse(reply[w]) = NilArray
               /\ SendResponse(reply[w]) # SendResponse(RetNone)

\* ---- shutdown (SpecLive)

\* a BLPOP call that has been issued and has not returned
Blocked(w) == pc[w] \notin {"idle", "done"}

C20_OneReplyPerFrame ==
    (cstate \in {"read", "closed"} /\ sock = <<>>)
        => /\ Len(written) = Len(arrived)
           /\ \A i \in 1 .. Len(written) : written[i].frame = i

\* C21: a command whose handler raises produces exactly one error reply,
\* leaves the connection open and the keyspace unchanged, and the next frame
\* on the connection is processed normally: it gets its reply too.
C21_ErrorThenNextFrame ==
    /\ [][(Len(written') > Len(written) /\ IsError(written'[Len(written')].bytes))
            => /\ Len(written') = Len(written) + 1
               /\ cstate' = "read"
               /\ UNCHANGED <<key_types, values, expirations, lists>>]_vars
    /\ [](\A i \in 1 .. Len(written) :
            (/\ cstate \in {"read", "closed"} /\ sock = <<>>
             /\ IsError(written[i].bytes)
             /\ written[i].frame < Len(arrived))
                => \E j \in 1 .. Len(written) :
                       written[j].frame = written[i].frame + 1)

\* ---- the command dispatcher (SpecDispatch)

\* C22: dispatch resolves the handler case-insensitively and invokes it with
\* exactly the given arguments in their order and the dispatcher's store as
\* the keyword argument store; an unregistered name raises the
\* unknown-command error and no handler is invoked.
C22_DispatchInvocation ==
    [][\A command_name \in Names, args \in ArgSeqs :
          (dcall' = [name |-> command_name, args |-> args, made |-> dcall'.made]
           /\ commands' = commands)
            => IF \E k \in DOMAIN commands : k = Upper(command_name)
               THEN /\ dcall'.made.raised = ""
                    /\ dcall'.made.handler = commands[Upper(command_name)]
                    /\ dcall'.made.args = args
                    /\ dcall'.made.kwargs = DictPut(EmptyDict, "store", StoreObj)
               ELSE /\ dcall'.made.raised = "unknown command"
                    /\ dcall'.made.handler = NoHandler]_vars

\* ---- strings and FLUSHDB (SpecStore)

\* C23: SET k v2 without PX on a key that has an expiration removes it: GET k
\* returns v2 at every later clock value, however far the clock advances.
C23_SetClearsExpiration ==
    (/\ last.op = "set_key" /\ last.ret = RetNone
     /\ ~last.hasTtl /\ last.hadExp)
        => /\ last.key \notin DOMAIN expirations
           /\ \A t \in now .. MaxClock + MaxTTL + 1 :
                  Store_get_key(key_types, values, expirations, t,
                                last.key).ret = RetVal(last.value)

\* a key that had a deadline was set again without a TTL and GET returns
\* the new value with the clock at its bound
C23_Witness ==
    /\ last.op = "set_key" /\ last.ret = RetNone
    /\ ~last.hasTtl /\ last.hadExp
    /\ now = MaxClock
    /\ Store_get_key(key_types, values, expirations, now, last.key).ret
           = RetVal(last.value)

\* C24: after FLUSHDB, whatever the prior state, every key is absent:
\* key_types, values, expirations and lists are empty, GET returns nil and
\* LLEN returns 0 for every key.
C24_FlushLeavesNothing ==
    last.op = "flushdb"
        => /\ key_types = EmptyDict /\ values = EmptyDict
           /\ expirations = EmptyDict /\ lists = EmptyDict
           /\ \A k \in Keys :
                 /\ Store_get_key(key_types, values, expirations, now, k).ret
                        = RetNone
                 /\ Store_llen(key_types, lists, k).ret = RetInt(0)

\* FLUSHDB has run on a store that held a string with a deadline and a list
C24_Witness ==
    /\ last.op = "flushdb" /\ last.hadExp /\ last.hadLists
    /\ key_types = EmptyDict

\* ---- lists (SpecStore)

\* the list under key, empty when the key holds none
ListAt(L, key) == IF key \in DOMAIN L THEN L[key] ELSE <<>>

\* C25: LPUSH k v1 ... vn on a list whose contents are L leaves the list as
\* [vn, ..., v1] followed by L and returns len(L) + n.
C25_LPushPrepends ==
    [][(last'.op = "lpush" /\ last'.ret # RetTypeError)
        => LET k == last'.key
               vs == last'.vals
               n == Len(vs)
               before == ListAt(lists, k)
               after == ListAt(lists', k)
           IN /\ Len(after) = Len(before) + n
              /\ \A i \in 1 .. n : after[i] = vs[n + 1 - i]
              /\ \A i \in 1 .. Len(before) : after[n + i] = before[i]
              /\ last'.ret = RetInt(Len(before) + n)]_vars

\* two different values were pushed at once in front of a list that held one
C25_Witness ==
    /\ last.op = "lpush" /\ last.ret = RetInt(3)
    /\ Len(last.vals) = 2 /\ last.vals[1] # last.vals[2]
    /\ Len(ListAt(lists, last.key)) = 3

\* ---- the list store as a queue (SpecFifo)

\* C26: under any interleaving of RPUSH, LPOP and LLEN the values come back
\* from LPOP in the order they were pushed, each exactly once; RPUSH returns
\* the length after the append and LLEN the number pushed minus the number
\* popped.
C26_ListIsFifo ==
    /\ \A k \in Keys : popped[k] \o ListAt(lists, k) = pushed[k]
    /\ last.op \in {"rpush", "llen"}
         => last.ret = RetInt(Len(pushed[last.key]) - Len(popped[last.key]))

\* pushes and pops have alternated on one key: two values are back, in the
\* order pushed, and a value pushed after the first pop is still queued
C26_Witness ==
    \E k \in Keys :
        /\ Len(pushed[k]) = MaxPushed
        /\ Len(popped[k]) = 2 /\ popped[k][1] # popped[k][2]
        /\ last.op = "llen" /\ last.key = k /\ last.ret = RetInt(2)

C28_LRangeIndices ==
    [][(last'.op = "lrange" /\ last'.ret # RetTypeError)
        => LET given == ListAt(lists, last'.key)
               n == Len(given)
               a == IF last'.start < 0 THEN last'.start + n ELSE last'.start
               b == IF last'.end < 0 THEN last'.end + n ELSE last'.end
               s == IF a > 0 THEN a ELSE 0
               e == IF b < n - 1 THEN b ELSE n - 1
           IN /\ last'.ret.kind = "list"
              /\ IF s > e \/ s >= n
                 THEN last'.ret.vals = <<>>
                 ELSE /\ Len(last'.ret.vals) = e - s + 1
                      /\ \A i \in 1 .. e - s + 1 :
                             last'.ret.vals[i] = given[s + i]
              /\ lists' = lists]_vars

\* a range given by two negative indices took the middle element out of a
\* list of three whose first two elements differ
C28_Witness ==
    /\ last.op = "lrange" /\ last.start = -2 /\ last.end = -2
    /\ Len(ListAt(lists, last.key)) = 3
    /\ last.ret = RetList(<<ListAt(lists, last.key)[2]>>)
    /\ ListAt(lists, last.key)[1] # ListAt(lists, last.key)[2]

\* ---- RESP2 round trip (SpecResp)

\* C29: for every reply value v (simple string, integer, bulk string, nil
\* bulk, array, nil array), parsing encode(v) yields v again; so the nil
\* array and the empty array, and the nil bulk and the empty bulk string,
\* which are different values with different encodings, decode to different
\* values.
C29_RoundTrip ==
    /\ back # NoValue => back = rv
    /\ (rv = NilArrayValue /\ back # NoValue)
           => back # parse(encode(Array(<<>>))).value
    /\ (rv = NilBulkValue /\ back # NoValue)
           => back # parse(encode(BulkString(<<>>))).value

\* ---- BLPOP loses no value (SpecPop)

\* the values that left the list of key between before and after, which are
\* taken from its head
LeftList(before, after, key) ==
    SubSeq(ListAt(before, key), 1,
           Len(ListAt(before, key)) - Len(ListAt(after, key)))

\* C30: across a BLPOP call every value that leaves a list is the value in
\* the reply, under the key in the reply, also when the head of a list is
\* the empty string: no value is removed without being returned.
C30_NoValueLost ==
    last.op = "blpop" =>
        \A k \in Keys :
            LeftList(last.before, lists, k)
                = IF last.ret.kind = "pair" /\ last.ret.key = k
                  THEN <<last.ret.val>>
                  ELSE <<>>

\* ---- BLPOP on a key that holds no list any more (Spec)

\* C31: BLPOP on a key whose list was emptied by earlier pops behaves as on
\* a key that was never created: no key of the model holds a string, so the
\* call blocks until a push or its timeout and its reply is [key, value] or
\* nil (or nothing, when the client is gone), never an error.
C31_EmptiedKeyAsAbsent ==
    \A w \in Waiters :
        reply[w].kind \in {"nil", "pair", "cancelled"}

\* ---- LLEN and LRANGE are read-only (SpecStore)

\* C32: LLEN and LRANGE on any key (present, absent, or of another kind)
\* leave key_types and every store unchanged; and a GET on a key that no
\* store holds returns nil, whatever LLEN or LRANGE calls came before it.
C32_ProbesReadOnly ==
    [][/\ last'.op \in {"llen", "lrange"}
           => UNCHANGED <<key_types, values, expirations, lists>>
       /\ (/\ last'.op = "get_key"
           /\ last'.key \notin DOMAIN values
           /\ last'.key \notin DOMAIN lists)
           => last'.ret = RetNone]_vars

\* ---- BLPOP registers only when no key has data (Spec)

\* the first key of keys, in argument order, whose list has an element; ""
\* when there is none
RECURSIVE FirstWithData(_, _)
FirstWithData(L, keys) ==
    IF keys = <<>> THEN ""
    ELSE IF ListAt(L, Head(keys)) # <<>> THEN Head(keys)
    ELSE FirstWithData(L, Tail(keys))

\* C33: a BLPOP that is executed (not dropped by the shutdown before it
\* ran) registers as a waiter only if, at that moment, every one of its keys
\* is absent or empty; if a key has data the call returns at once with the
\* head of the first non-empty key in argument order, pops only that
\* element and registers nothing.
C33_RegisterOnlyWhenEmpty ==
    [][\A w \in Waiters :
         (pc[w] = "sent" /\ pc'[w] # "sent" /\ reply'[w] # CancelledReply) =>
             LET d == FirstWithData(lists, bargs[w].keys)
             IN /\ pc'[w] = "wait" => d = ""
                /\ d # "" =>
                     /\ pc'[w] = "done"
                     /\ reply'[w] = Pair(d, Head(lists[d]))
                     /\ lists' = ListStore_lpop(lists, d, FALSE, 0).lists
                     /\ UNCHANGED notification_handlers]_vars

\* ---- one RPUSH of n values to m blocked callers (SpecBurst)

\* the callers that sent a BLPOP: all of them were blocked when the RPUSH
\* was sent
BurstCallers == {w \in Waiters : pc[w] # "idle"}
\* the callers answered with a [key, value] pair
BurstReleased == {w \in Waiters : pc[w] = "done" /\ reply[w].kind = "pair"}

\* C34: a single RPUSH of n values to k1 while m callers are blocked in
\* BLPOP on k1 notifies once per value in push order: when the loop has run
\* everything the push started, min(n, m) callers are released, each with a
\* distinct one of the first min(n, m) values, and the other values are in
\* the list in push order.
C34_BurstReleasesMin ==
    (npush > 0 /\ ready = <<>>) =>
        LET n == npush
            m == Cardinality(BurstCallers)
            k == Min(n, m)
        IN /\ Cardinality(BurstReleased) = k
           /\ \A w \in BurstReleased :
                 reply[w].key = "k1" /\ reply[w].val \in 1 .. k
           /\ \A v, w \in BurstReleased : reply[v].val = reply[w].val => v = w
           /\ ListAt(lists, "k1") = [i \in 1 .. n - k |-> k + i]

\* ---- BlockingQueueManager.notify_push (SpecQm)

\* C35: notify_push(k, v) returns True only if (k, v) is then delivered to
\* one waiting operation or handler (once the tasks it created have run);
\* no two calls for different keys are credited to the same waiting
\* operation; and a call that returns False leaves waiting_operations,
\* notification_handlers and active_operations unchanged.
C35_NotifyPushCredit ==
    /\ [](/\ qtasks = <<>> =>
                \A i \in 1 .. Len(qlog) : qlog[i].ret => i \in qgot
          /\ \A i, j \in 1 .. Len(qlog) :
                (/\ qlog[i].kind = "operation" /\ qlog[j].kind = "operation"
                 /\ qlog[i].target = qlog[j].target)
                    => qlog[i].key = qlog[j].key)
    /\ [][(Len(qlog') > Len(qlog) /\ ~qlog'[Len(qlog')].ret)
             => UNCHANGED <<waiting_operations, notification_handlers,
                            active_operations>>]_vars

\* ---- BlockingManager.notify_new_element (SpecBm)

\* the futures queued under any key
BmQueued(WC) == UNION {SeqToSet(WC[k]) : k \in DOMAIN WC}
\* the deque of key, empty when the key has none
BmQueue(WC, key) == IF key \in DOMAIN WC THEN WC[key] ELSE <<>>
\* the positions in q of the futures that are not done
LivePos(q, FUT) == {i \in 1 .. Len(q) : FUT[q[i]].st = "pending"}

\* what the last notify_new_element(k, v) did when a live waiter was queued
\* under k: it resolved the oldest one with (k, v), dropped it and the done
\* futures ahead of it from the deque and from active_futures, and touched
\* nothing else
BmServedOldest ==
    LET q == BmQueue(bcall.before.waiting_clients, bcall.key)
        lp == LivePos(q, bcall.before.futures)
    IN lp # {} =>
          LET i == CHOOSE x \in lp : \A y \in lp : x <= y
          IN /\ bcall.ret /\ bcall.target = q[i]
             /\ bcall.after.futures =
                    [bcall.before.futures EXCEPT
                        ![q[i]] = Fut("result", bcall.key, bcall.key,
                                      bcall.val, FALSE)]
             /\ bcall.after.waiting_clients =
                    DictPut(bcall.before.waiting_clients, bcall.key,
                            SubSeq(q, i + 1, Len(q)))
             /\ bcall.after.active_futures =
                    bcall.before.active_futures \ {q[j] : j \in 1 .. i}

\* C36 as stated, with "returns False without effect" read as: the tables
\* are what they were.  Waiters on a key are served in registration order,
\* at most once; notify_new_element(k, v) resolves with (k, v) the oldest
\* waiter on k whose future is not done and discards the done futures ahead
\* of it; with no live waiter it returns False and changes nothing; in every
\* state the futures queued under any key are exactly active_futures.
C36_FifoOnceStrict ==
    /\ BmQueued(waiting_clients) = active_futures
    /\ \A f \in Futs : bserved[f] <= 1
    /\ bcall.val > 0 =>
          /\ BmServedOldest
          /\ LivePos(BmQueue(bcall.before.waiting_clients, bcall.key),
                     bcall.before.futures) = {}
                => (~bcall.ret /\ bcall.after = bcall.before)

\* C36 amended: as above, but a call that finds no live waiter returns
\* False, resolves no future and leaves the other keys alone, while the
\* done futures queued under k are discarded from the deque and from
\* active_futures.
C36_FifoOnce ==
    /\ BmQueued(waiting_clients) = active_futures
    /\ \A f \in Futs : bserved[f] <= 1
    /\ bcall.val > 0 =>
          /\ BmServedOldest
          /\ LET q == BmQueue(bcall.before.waiting_clients, bcall.key)
             IN LivePos(q, bcall.before.futures) = {} =>
                   /\ ~bcall.ret
                   /\ bcall.after.futures = bcall.before.futures
                   /\ bcall.after.waiting_clients =
                          IF bcall.key \in DOMAIN bcall.before.waiting_clients
                          THEN DictPut(bcall.before.waiting_clients,
                                       bcall.key, <<>>)
                          ELSE bcall.before.waiting_clients
                   /\ bcall.after.active_futures =
                          bcall.before.active_futures \ SeqToSet(q)

\* a call served a waiter that had a done future queued ahead of it and a
\* live one behind it
C36_Witness ==
    LET q == BmQueue(bcall.before.waiting_clients, bcall.key)
    IN /\ bcall.ret
       /\ Len(q) = 3
       /\ bcall.target = q[2]
       /\ bcall.before.futures[q[1]].st = "cancelled"
       /\ bcall.before.futures[q[3]].st = "pending"

\* ---- the entry an accepted XADD stores, and what a rejected one leaves (SpecStream)

\* C37: after an accepted XADD the id of the entry appended to the stream is
\* the id that was returned, whatever the field names are.
C37_StoredIdIsReturnedId ==
    (xlast.op = "xadd" /\ xlast.ret.kind = "id")
        => /\ xlast.key \in DOMAIN streams
           /\ streams[xlast.key] # <<>>
           /\ LastId(streams, xlast.key) = xlast.ret.id

\* C38: an XADD that is rejected (invalid id, 0-0, equal or smaller id, no
\* field-value pairs) leaves every stream as it was and creates no key.
C38_RejectedXAddNoChange ==
    [][(xlast'.op = "xadd" /\ xlast'.ret.kind # "id")
          => /\ streams' = streams
             /\ DOMAIN streams' = DOMAIN streams]_vars

\* an XADD on a key that does not exist has just been rejected while another
\* stream has an entry, and the key still does not exist
C38_Witness ==
    /\ xlast.op = "xadd"
    /\ xlast.ret.kind \in {"Invalid", "GreaterThan00", "WrongArgs"}
    /\ xlast.key \notin DOMAIN streams
    /\ \E k \in DOMAIN streams : streams[k] # <<>>

\* ---- SET over a list (SpecStore)

\* C39: SET (without PX or with a positive PX) on a key bound to a list
\* succeeds; afterwards the key's kind is string, GET returns the new value
\* and the list store does not hold the key.
C39_SetReplacesList ==
    (/\ last.op = "set_key" /\ last.was = "list"
     /\ (last.hasTtl => last.ttl > 0))
        => /\ last.ret = RetNone
           /\ KindOf(key_types, last.key) = "string"
           /\ Store_get_key(key_types, values, expirations, now,
                            last.key).ret = RetVal(last.value)
           /\ last.key \notin DOMAIN lists

\* a key whose list held elements has just been SET with a positive PX while
\* the other key still holds a list
C39_Witness ==
    /\ last.op = "set_key" /\ last.was = "list" /\ last.hadList
    /\ last.hasTtl /\ last.ttl > 0 /\ last.ret = RetNone
    /\ last.key \in DOMAIN values
    /\ \E j \in Keys \ {last.key} : j \in DOMAIN lists /\ Len(lists[j]) >= 2

====
